---- MODULE Spec2Model ----
(***************************************************************************)
(* Model of the Brewfather client: the query parameter builder             *)
(* (ListQueryParams.as_query_param_str), the URL builder and the paginated *)
(* fetch engine (BrewfatherClient._get_paginated_list) of api.py, driven   *)
(* by concurrent callers that share the one module-level client.           *)
(*                                                                         *)
(* Conventions.  An optional Python value (x | None) is a sequence of      *)
(* length 0 or 1: None is <<>>, a set value v is <<v>>.  A Python string   *)
(* is a sequence of one-character strings, so that percent-encoding is     *)
(* computed character by character.  A query string is the sequence of     *)
(* its "key=value" items (joined by "&" in the code), each item a pair     *)
(* <<key, value>>.                                                         *)
(***************************************************************************)
EXTENDS Integers, Sequences, FiniteSets, TLC

None == <<>>
Some(v) == <<v>>

Last(s) == s[Len(s)]

(***************************************************************************)
(* Bounds of the model and program constants.                              *)
(***************************************************************************)
\* Largest number of records of the synthetic cursor-paginated endpoint.
MaxStore == 11
\* Largest positive page size a caller configures.
MaxLimit == 2

\* self.max_pages = 10 (api.py:82)
max_pages == 10
\* current_params.limit = 50 (api.py:150)
DEFAULT_LIMIT == 50

\* The concurrent logical callers of the one shared client (server.py:43).
Callers == {1, 2}

(***************************************************************************)
(* Strings: str(int) and urllib.parse.quote_plus.                          *)
(***************************************************************************)
Digits == <<"0", "1", "2", "3", "4", "5", "6", "7", "8", "9">>

RECURSIVE NatStr(_)
NatStr(n) == IF n < 10 THEN <<Digits[n + 1]>>
             ELSE NatStr(n \div 10) \o <<Digits[(n % 10) + 1]>>

\* f"{self.limit}": the decimal rendering of an int.
IntStr(n) == IF n < 0 THEN <<"-">> \o NatStr(0 - n) ELSE NatStr(n)

\* quote_plus of one character: a space becomes "+", a reserved character
\* becomes its %XX escape, an unreserved character is kept.
QuoteChar(ch) ==
    CASE ch = " " -> <<"+">>
      [] ch = "/" -> <<"%", "2", "F">>
      [] ch = "+" -> <<"%", "2", "B">>
      [] ch = "&" -> <<"%", "2", "6">>
      [] ch = "=" -> <<"%", "3", "D">>
      [] ch = "%" -> <<"%", "2", "5">>
      [] OTHER -> <<ch>>

RECURSIVE QuotePlus(_)
QuotePlus(s) == IF s = <<>> THEN <<>>
                ELSE QuoteChar(s[1]) \o QuotePlus(Tail(s))

\* 'true' if b else 'false' (api.py lines 44, 47, 50); str(b) would give
\* "True" and "False".
BoolStrPy(b) == IF b THEN <<"T", "r", "u", "e">> ELSE <<"F", "a", "l", "s", "e">>
BoolStr(b) == IF b THEN <<"t", "r", "u", "e">> ELSE <<"f", "a", "l", "s", "e">>

(***************************************************************************)
(* ListQueryParams and the query parameter builder.                        *)
(***************************************************************************)
\* A fresh ListQueryParams(): every option is the class default None.
ListQueryParams ==
    [inventory_negative |-> None, complete |-> None, inventory_exists |-> None,
     limit |-> None, start_after |-> None, order_by |-> None,
     order_by_direction |-> None]

\* Python truthiness of an optional int and of an optional str.
TruthyInt(o) == o # None /\ o[1] # 0
TruthyStr(o) == o # None /\ o[1] # <<>>

AsQueryParamStr(p) ==
    LET params ==
           (IF p.inventory_negative # None
              THEN << <<"inventory_negative", BoolStr(p.inventory_negative[1])>> >>
              ELSE <<>>)
        \o (IF p.complete # None
              THEN << <<"complete", BoolStr(p.complete[1])>> >>
              ELSE <<>>)
        \o (IF p.inventory_exists # None
              THEN << <<"inventory_exists", BoolStr(p.inventory_exists[1])>> >>
              ELSE <<>>)
        \o (IF TruthyInt(p.limit)
              THEN << <<"limit", IntStr(p.limit[1])>> >>
              ELSE <<>>)
        \o (IF TruthyStr(p.start_after)
              THEN << <<"start_after", QuotePlus(p.start_after[1])>> >>
              ELSE <<>>)
        \o (IF TruthyStr(p.order_by)
              THEN << <<"order_by", QuotePlus(p.order_by[1])>> >>
              ELSE <<>>)
        \o (IF TruthyStr(p.order_by_direction)
              THEN << <<"order_by_direction", p.order_by_direction[1]>> >>
              ELSE <<>>)
    IN IF params # <<>> THEN Some(params) ELSE None

\* _build_url(endpoint, id, query_params): the path, with the id when one
\* is given, and, when a params object is given, "?" followed by whatever
\* as_query_param_str returned.
BuildUrl(endpoint, id, query_params) ==
    [path |-> IF TruthyStr(id) THEN <<endpoint, id[1]>> ELSE <<endpoint>>,
     query |-> IF query_params # None
                 THEN Some(AsQueryParamStr(query_params[1]))
                 ELSE None]

(***************************************************************************)
(* State.                                                                  *)
(***************************************************************************)
VARIABLES
    pc,             \* per caller: "idle", "loop", "awaiting", "done", "failed"
    endpoint,       \* per caller: the endpoint argument of the call
    query_params,   \* per caller: the options as the caller passed them
    heap,           \* the ListQueryParams objects, by object identity
    current_params, \* per caller: the object the engine works on
    all_items,      \* per caller: the accumulator
    page_count,     \* per caller: the loop counter
    open,           \* per caller: httpx.AsyncClient connections now open
    requests,       \* per caller: the URLs requested so far, in order
    pages,          \* per caller: the pages decoded so far, in order
    result,         \* per caller: the returned collection, when returned
    warned,         \* per caller: the 'Reached max page limit' warning
    reported,       \* per caller: K of 'Fetched ... across K page(s)'
    store,          \* the records the remote endpoint holds
    earlier,        \* per caller: the requests and result of its earlier calls
    given,          \* the input of the operation under evaluation, if any
    returned        \* what that operation returned, once it has run

vars == <<pc, endpoint, query_params, heap, current_params, all_items,
          page_count, open, requests, pages, result, warned, reported, store,
          earlier, given, returned>>

(***************************************************************************)
(* The remote service and the decoder.                                     *)
(***************************************************************************)
Rec(id, n) == [id |-> id, n |-> n]

\* The records behind the endpoints of the arbitrary remote.
Catalogue == <<Rec(<<"a">>, 1), Rec(<<"b", " ">>, 2), Rec(<<"c", "/">>, 3)>>

\* The value of the first "key=value" item of a URL's query string.
QueryValue(url, key) ==
    IF url.query = None \/ url.query[1] = None THEN None
    ELSE LET items == url.query[1][1]
             hits == {i \in 1..Len(items) : items[i][1] = key}
         IN IF hits = {} THEN None
            ELSE Some(items[CHOOSE i \in hits : \A j \in hits : i <= j][2])

\* The remote reads a decimal number back.
DigitVal(ch) == CHOOSE d \in 0..9 : Digits[d + 1] = ch

RECURSIVE ParseNat(_)
ParseNat(s) == IF Len(s) = 1 THEN DigitVal(s[1])
               ELSE 10 * ParseNat(SubSeq(s, 1, Len(s) - 1)) + DigitVal(Last(s))

ParseInt(s) == IF s[1] = "-" THEN 0 - ParseNat(Tail(s)) ELSE ParseNat(s)

\* The limit the remote reads back from the URL (0 when there is none).
RequestedLimit(url) ==
    LET v == QueryValue(url, "limit")
    IN IF v = None THEN 0 ELSE ParseInt(v[1])

\* urllib.parse.unquote_plus, as the remote applies it to a value.
UnquoteEscape(a, b) ==
    CASE <<a, b>> = <<"2", "0">> -> " "
      [] <<a, b>> = <<"2", "F">> -> "/"
      [] <<a, b>> = <<"2", "B">> -> "+"
      [] <<a, b>> = <<"2", "6">> -> "&"
      [] <<a, b>> = <<"3", "D">> -> "="
      [] <<a, b>> = <<"2", "5">> -> "%"
      [] OTHER -> "?"

RECURSIVE UnquotePlus(_)
UnquotePlus(s) ==
    IF s = <<>> THEN <<>>
    ELSE IF s[1] = "+" THEN <<" ">> \o UnquotePlus(Tail(s))
    ELSE IF s[1] = "%" /\ Len(s) >= 3
           THEN <<UnquoteEscape(s[2], s[3])>> \o UnquotePlus(SubSeq(s, 4, Len(s)))
    ELSE <<s[1]>> \o UnquotePlus(Tail(s))

\* The position in `recs` of the record the URL's cursor names (0: none).
CursorPos(recs, url) ==
    LET v == QueryValue(url, "start_after")
        hits == {i \in 1..Len(recs) : v # None /\ recs[i].id = UnquotePlus(v[1])}
    IN IF hits = {} THEN 0 ELSE CHOOSE i \in hits : \A j \in hits : i <= j

\* n records following position pos, wrapping around.
Window(recs, pos, n) ==
    [i \in 1..n |-> recs[((pos + i - 1) % Len(recs)) + 1]]

BlankLast(page) == [page EXCEPT ![Len(page)].id = <<>>]

TransportError == [status |-> "error", valid |-> FALSE, records |-> <<>>]
Garbage == [status |-> "ok", valid |-> FALSE, records |-> <<>>]
PageBody(recs) == [status |-> "ok", valid |-> TRUE, records |-> recs]

\* The page lengths the arbitrary remote answers a request with: nothing,
\* one record, one short of the limit, the limit and, for a small limit,
\* one more than the limit.
PageLens(limit) ==
    IF limit <= 0 THEN {0, 1}
    ELSE {0, 1, limit - 1, limit}
         \cup (IF limit <= MaxLimit + 1 THEN {limit + 1} ELSE {})

\* Every response the arbitrary remote may give to a request: a transport
\* failure (network error or non-2xx status), a body that does not decode,
\* a page, or a page whose last record has an empty id.
RemoteResponses(url) ==
    LET lens == PageLens(RequestedLimit(url))
        page(n) == Window(store, CursorPos(store, url), n)
    IN {TransportError, Garbage}
       \cup {PageBody(page(n)) : n \in lens}
       \cup {PageBody(BlankLast(page(n))) : n \in lens \ {0}}

\* The responses of the remote while two callers run: a failure, a body
\* that does not decode, an empty page or a page of the requested size.
ConcResponses(url) ==
    LET lim == RequestedLimit(url)
        page(n) == Window(store, CursorPos(store, url), n)
    IN {TransportError, Garbage, PageBody(page(0)),
        PageBody(page(IF lim > 0 THEN lim ELSE 1))}

\* The synthetic cursor-paginated endpoint: the next min(P, remaining)
\* records after the cursor, the first ones when there is no cursor.
SynthResponse(url) ==
    LET pos == CursorPos(store, url)
        rest == Len(store) - pos
        lim == RequestedLimit(url)
        n == IF lim < rest THEN lim ELSE rest
    IN PageBody(SubSeq(store, pos + 1, pos + n))

\* model_class.model_validate_json: the ordered records of the page, or a
\* decode failure; every record it yields exposes a non-empty id.
ModelValidateJson(body) ==
    [ok |-> /\ body.valid
            /\ \A i \in 1..Len(body.records) : body.records[i].id # <<>>,
     root |-> body.records]

(***************************************************************************)
(* The paginated fetch engine.                                             *)
(***************************************************************************)
\* _make_request: the `async with` block releases the connection on every
\* path; raise_for_status raises on a failed transport.
MakeRequestLeakOnError(resp) ==
    [raised |-> resp.status # "ok",
     text |-> [valid |-> resp.valid, records |-> resp.records],
     released |-> resp.status = "ok"]
MakeRequest(resp) ==
    [raised |-> resp.status # "ok",
     text |-> [valid |-> resp.valid, records |-> resp.records],
     released |-> TRUE]

\* The object a call's options live in: a ListQueryParams() of its own,
\* created by the caller or by `query_params or ListQueryParams()`.
NewParamsShared(c) == 1
NewParams(c) == c

\* Lines 146-150: the options on entry, with the default page size.
EntryParamsAlwaysDefault(qp) ==
    LET cp == IF qp # None THEN qp[1] ELSE ListQueryParams
    IN [cp EXCEPT !.limit = Some(DEFAULT_LIMIT)]
EntryParams(qp) ==
    LET cp == IF qp # None THEN qp[1] ELSE ListQueryParams
    IN IF ~TruthyInt(cp.limit) THEN [cp EXCEPT !.limit = Some(DEFAULT_LIMIT)]
       ELSE cp

\* Line 153: the loop test.
LoopTestInclusive(count) == count <= max_pages
LoopTestAlways(count) == TRUE
LoopTest(count) == count < max_pages

\* Lines 163-170: the page ends the loop when it is shorter than the
\* limit, or else when it is empty.
PageEndsLoopOnlyEmpty(root, limit) == root = <<>>
PageEndsLoop(root, limit) == Len(root) < limit \/ root = <<>>

\* Line 168: the cursor of the next page.
NextCursorFirst(root) == root[1].id
NextCursor(root) == Last(root).id

\* Line 174: the test of the truncation warning.
ReachedMaxPagesEarly(count) == count + 1 >= max_pages
ReachedMaxPages(count) == count >= max_pages

\* Line 159: the accumulator after a page.
ExtendReplace(items, root) == root
Extend(items, root) == items \o root

\* Lines 174-183: the code after the loop.
Finish(c, items, count) ==
    /\ warned' = [warned EXCEPT ![c] = ReachedMaxPages(count)]
    /\ reported' = [reported EXCEPT ![c] = Some(count + 1)]
    /\ result' = [result EXCEPT ![c] = Some(items)]
    /\ pc' = [pc EXCEPT ![c] = "done"]

\* Lines 155-156 raising: the failure leaves the call; nothing is returned.
FailSoft(c) ==
    /\ Finish(c, all_items[c], page_count[c])
    /\ UNCHANGED <<heap, all_items, page_count, pages>>
Fail(c) ==
    /\ pc' = [pc EXCEPT ![c] = "failed"]
    /\ UNCHANGED <<heap, all_items, page_count, pages, result, warned, reported>>

\* A caller invokes the engine: lines 145-152.
Call(c, ep, qp) ==
    /\ pc[c] = "idle"
    /\ endpoint' = [endpoint EXCEPT ![c] = ep]
    /\ query_params' = [query_params EXCEPT ![c] = qp]
    /\ current_params' = [current_params EXCEPT ![c] = NewParams(c)]
    /\ heap' = [heap EXCEPT ![NewParams(c)] = EntryParams(qp)]
    /\ all_items' = [all_items EXCEPT ![c] = <<>>]
    /\ page_count' = [page_count EXCEPT ![c] = 0]
    /\ pc' = [pc EXCEPT ![c] = "loop"]
    /\ UNCHANGED <<open, requests, pages, result, warned, reported, store>>
    /\ UNCHANGED <<earlier, given, returned>>

\* Lines 153-155 up to the await: the loop test holds, the URL is built
\* from the current options and the request is sent on a new connection.
Issue(c) ==
    /\ pc[c] = "loop"
    /\ LoopTest(page_count[c])
    /\ requests' = [requests EXCEPT
           ![c] = Append(@, BuildUrl(endpoint[c], None, Some(heap[current_params[c]])))]
    /\ open' = [open EXCEPT ![c] = @ + 1]
    /\ pc' = [pc EXCEPT ![c] = "awaiting"]
    /\ UNCHANGED <<endpoint, query_params, heap, current_params, all_items,
                   page_count, pages, result, warned, reported, store>>
    /\ UNCHANGED <<earlier, given, returned>>

\* Line 153 failing: the loop ends by the safety limit.
Exhaust(c) ==
    /\ pc[c] = "loop"
    /\ ~LoopTest(page_count[c])
    /\ Finish(c, all_items[c], page_count[c])
    /\ UNCHANGED <<endpoint, query_params, heap, current_params, all_items,
                   page_count, open, requests, pages, store>>
    /\ UNCHANGED <<earlier, given, returned>>

\* Lines 155-172 from the await on: the response arrives, the connection
\* is released, the page is decoded and appended, and the loop either
\* breaks or moves the cursor.
Receive(c, resp) ==
    /\ pc[c] = "awaiting"
    /\ LET out == MakeRequest(resp)
           page_result == ModelValidateJson(out.text)
           root == page_result.root
           items == Extend(all_items[c], root)
           cp == current_params[c]
       IN /\ open' = [open EXCEPT ![c] = IF out.released THEN @ - 1 ELSE @]
          /\ IF out.raised \/ ~page_result.ok
               THEN Fail(c)
               ELSE /\ all_items' = [all_items EXCEPT ![c] = items]
                    /\ pages' = [pages EXCEPT ![c] = Append(@, root)]
                    /\ IF PageEndsLoop(root, heap[cp].limit[1])
                         THEN /\ Finish(c, items, page_count[c])
                              /\ UNCHANGED <<heap, page_count>>
                         ELSE /\ heap' = [heap EXCEPT
                                     ![cp].start_after = Some(NextCursor(root))]
                              /\ page_count' = [page_count EXCEPT ![c] = @ + 1]
                              /\ pc' = [pc EXCEPT ![c] = "loop"]
                              /\ UNCHANGED <<result, warned, reported>>
    /\ UNCHANGED <<endpoint, query_params, current_params, requests, store>>
    /\ UNCHANGED <<earlier, given, returned>>

(***************************************************************************)
(* Specification: one call at a time against the arbitrary remote.         *)
(***************************************************************************)
Endpoints == {"recipes"}

\* The options callers pass: none at all, or an object with a limit that
\* is unset, zero, negative or positive, alone or with a filter, a cursor
\* and a sort.
InputParams ==
    {[ListQueryParams EXCEPT !.inventory_exists = Some(TRUE)],
     [ListQueryParams EXCEPT !.limit = Some(0)],
     [ListQueryParams EXCEPT !.limit = Some(0 - 1)],
     [ListQueryParams EXCEPT !.limit = Some(MaxLimit),
                             !.complete = Some(FALSE),
                             !.start_after = Some(<<"a">>),
                             !.order_by = Some(<<"n", " ">>),
                             !.order_by_direction = Some(<<"d", "e", "s", "c">>)]}
    \cup {[ListQueryParams EXCEPT !.limit = Some(l)] : l \in 1..MaxLimit}

InputArgs == {None} \cup {Some(p) : p \in InputParams}

\* The options of the callers that run concurrently.
ConcArgs ==
    {None,
     Some([ListQueryParams EXCEPT !.limit = Some(1)]),
     Some([ListQueryParams EXCEPT !.limit = Some(MaxLimit),
                                  !.start_after = Some(<<"b", " ">>)])}

\* The engine before any call, with the callers that take part.
EngineInit(cs, recs) ==
    /\ pc = [c \in Callers |-> IF c \in cs THEN "idle" ELSE "off"]
    /\ endpoint = [c \in Callers |-> "recipes"]
    /\ query_params = [c \in Callers |-> None]
    /\ heap = [o \in Callers |-> ListQueryParams]
    /\ current_params = [c \in Callers |-> c]
    /\ all_items = [c \in Callers |-> <<>>]
    /\ page_count = [c \in Callers |-> 0]
    /\ open = [c \in Callers |-> 0]
    /\ requests = [c \in Callers |-> <<>>]
    /\ pages = [c \in Callers |-> <<>>]
    /\ result = [c \in Callers |-> None]
    /\ warned = [c \in Callers |-> FALSE]
    /\ reported = [c \in Callers |-> None]
    /\ store = recs
    /\ earlier = [c \in Callers |-> <<>>]

\* The callers that take part: one call at a time, or all concurrently.
InitWith(cs, recs) ==
    /\ EngineInit(cs, recs)
    /\ given = None
    /\ returned = None

Init == InitWith({1}, Catalogue)

CallAny(c) == \E ep \in Endpoints, qp \in InputArgs : Call(c, ep, qp)

ReceiveAny(c) ==
    /\ pc[c] = "awaiting"
    /\ \E resp \in RemoteResponses(Last(requests[c])) : Receive(c, resp)

Next ==
    \E c \in Callers :
        \/ CallAny(c)
        \/ Issue(c)
        \/ Exhaust(c)
        \/ ReceiveAny(c)

Spec == Init /\ [][Next]_vars

(***************************************************************************)
(* Specification: two callers run concurrently on the shared client.       *)
(***************************************************************************)
InitConc == InitWith(Callers, Catalogue)

CallConc(c) == \E ep \in Endpoints, qp \in ConcArgs : Call(c, ep, qp)

ReceiveConc(c) ==
    /\ pc[c] = "awaiting"
    /\ \E resp \in ConcResponses(Last(requests[c])) : Receive(c, resp)

NextConc ==
    \E c \in Callers :
        \/ CallConc(c)
        \/ Issue(c)
        \/ Exhaust(c)
        \/ ReceiveConc(c)

SpecConc == InitConc /\ [][NextConc]_vars

(***************************************************************************)
(* Specification: one call against the synthetic cursor-paginated endpoint *)
(* holding N records, with page size P.                                    *)
(***************************************************************************)
SynthStore(n) == [k \in 1..n |-> Rec(<<"r", " ">> \o NatStr(k), k)]

InitSynth == \E n \in 0..MaxStore : InitWith({1}, SynthStore(n))

CallSynth(c) ==
    \E ep \in Endpoints, l \in 1..MaxLimit :
        Call(c, ep, Some([ListQueryParams EXCEPT !.limit = Some(l)]))

ReceiveSynth(c) ==
    /\ pc[c] = "awaiting"
    /\ Receive(c, SynthResponse(Last(requests[c])))

NextSynth ==
    \E c \in Callers :
        \/ CallSynth(c)
        \/ Issue(c)
        \/ Exhaust(c)
        \/ ReceiveSynth(c)

SpecSynth == InitSynth /\ [][NextSynth]_vars

(***************************************************************************)
(* Properties of the paginated fetch engine.                               *)
(***************************************************************************)
RECURSIVE Concat(_)
Concat(ps) == IF ps = <<>> THEN <<>> ELSE Concat(SubSeq(ps, 1, Len(ps) - 1)) \o Last(ps)

\* Every request of caller c was answered by a page of exactly the
\* requested number of records.
FullPages(c) ==
    /\ Len(requests[c]) > 0
    /\ Len(pages[c]) = Len(requests[c])
    /\ \A i \in 1..Len(pages[c]) :
           Len(pages[c][i]) = RequestedLimit(requests[c][i])

\* Page i of caller c signals exhaustion.
ShortPage(c, i) ==
    \/ Len(pages[c][i]) < RequestedLimit(requests[c][i])
    \/ pages[c][i] = <<>>

\* C1: a call issues at most 10 page requests whatever the remote does; a
\* call whose every page held exactly `limit` records issued exactly 10
\* requests and returned 10 x limit records, without a failure.
C1_AtMostTenRequests ==
    \A c \in Callers :
        /\ Len(requests[c]) <= 10
        /\ (FullPages(c) /\ pc[c] # "loop") =>
               /\ pc[c] = "done"
               /\ Len(requests[c]) = 10
               /\ result[c] # None
               /\ Len(result[c][1]) = 10 * RequestedLimit(requests[c][1])

C1_Witness ==
    \E c \in Callers :
        /\ pc[c] = "done"
        /\ FullPages(c)
        /\ Len(requests[c]) = 10
        /\ Len(result[c][1]) = 10 * DEFAULT_LIMIT

\* C2: a page with fewer records than the limit, or with no record at all,
\* is the last page of the call: the call has returned, successfully, the
\* records accumulated up to and including that page, and no request
\* follows it.
C2_ShortPageEndsCall ==
    \A c \in Callers :
        \A i \in 1..Len(pages[c]) :
            ShortPage(c, i) =>
                /\ i = Len(pages[c])
                /\ Len(requests[c]) = i
                /\ pc[c] = "done"
                /\ result[c] = Some(Concat(pages[c]))

C2_Witness ==
    \E c \in Callers :
        /\ pc[c] = "done"
        /\ Len(pages[c]) >= 2
        /\ Last(pages[c]) = <<>>
        /\ RequestedLimit(requests[c][1]) < 0
        /\ result[c] = Some(Concat(pages[c]))

\* A URL without its start_after item.
WithoutCursor(url) ==
    [path |-> url.path,
     query |-> IF url.query = None \/ url.query[1] = None THEN url.query
               ELSE Some(Some(SelectSeq(url.query[1][1],
                                        LAMBDA it : it[1] # "start_after")))]

\* C3: every request after the first carries, as start_after, the id of the
\* last record of the page before it, and is otherwise the same request as
\* the one before: same endpoint, limit, filters and sort options.
C3_CursorIsLastId ==
    \A c \in Callers :
        \A i \in 2..Len(requests[c]) :
            /\ QueryValue(requests[c][i], "start_after") # None
            /\ UnquotePlus(QueryValue(requests[c][i], "start_after")[1])
                   = Last(pages[c][i - 1]).id
            /\ WithoutCursor(requests[c][i]) = WithoutCursor(requests[c][i - 1])

C3_Witness ==
    \E c \in Callers :
        /\ Len(requests[c]) >= 3
        /\ QueryValue(requests[c][1], "start_after") = Some(<<"a">>)
        /\ QueryValue(requests[c][2], "start_after") = Some(<<"c", "%", "2", "F">>)
        /\ QueryValue(requests[c][3], "start_after") = Some(<<"b", "+">>)
        /\ QueryValue(requests[c][3], "order_by") = Some(<<"n", "+">>)

\* C4: the collection a successful call returns is the concatenation of the
\* pages it received, in the order received.
C4_ResultIsConcatenation ==
    \A c \in Callers :
        /\ pc[c] = "done" => result[c] = Some(Concat(pages[c]))
        /\ pc[c] # "done" => result[c] = None

C4_Witness ==
    \E c \in Callers :
        /\ pc[c] = "done"
        /\ Len(pages[c]) >= 3
        /\ \A i \in 1..2 : Len(pages[c][i]) >= 2
        /\ result[c] = Some(Concat(pages[c]))

\* The page size P of caller c's call against the synthetic endpoint.
PageSize(c) == query_params[c][1].limit[1]

\* No request of caller c follows a page of fewer than P records.
StopsAtShortPage(c) ==
    \A i \in 1..Len(pages[c]) :
        Len(pages[c][i]) < PageSize(c) => Len(requests[c]) = i

\* C5 as stated: against the synthetic endpoint of N records and page size
\* P the call returns exactly the N records, in order, for every N and P,
\* and requests nothing after the first page of fewer than P records.
C5_AllRecordsForEveryN ==
    \A c \in Callers :
        /\ pc[c] # "failed"
        /\ pc[c] = "done" => result[c] = Some(store)
        /\ pc[c] \notin {"idle", "off"} => StopsAtShortPage(c)

\* C5, amended: the call returns exactly the N records, in order, when
\* N <= 10 x P (the first 10 x P records otherwise), and requests nothing
\* after the first page of fewer than P records.
C5_AllRecordsUpToTenPages ==
    \A c \in Callers :
        /\ pc[c] # "failed"
        /\ (pc[c] = "done" /\ Len(store) <= 10 * PageSize(c)) =>
               result[c] = Some(store)
        /\ (pc[c] = "done" /\ Len(store) > 10 * PageSize(c)) =>
               result[c] = Some(SubSeq(store, 1, 10 * PageSize(c)))
        /\ pc[c] \notin {"idle", "off"} => StopsAtShortPage(c)

C5_Witness ==
    \E c \in Callers :
        /\ pc[c] = "done"
        /\ PageSize(c) = 2
        /\ Len(store) = 6
        /\ Len(requests[c]) = 4
        /\ result[c] = Some(store)

\* C6: the truncation warning is emitted exactly by the calls that returned
\* after 10 pages none of which signalled exhaustion; such a call returns
\* everything it accumulated.
C6_WarningIffTruncated ==
    \A c \in Callers :
        /\ warned[c] <=> /\ pc[c] = "done"
                         /\ Len(pages[c]) = 10
                         /\ \A i \in 1..Len(pages[c]) : ~ShortPage(c, i)
        /\ warned[c] => /\ result[c] = Some(Concat(pages[c]))
                        /\ Len(requests[c]) = 10

C6_Witness ==
    \E c \in Callers :
        /\ warned[c]
        /\ pc[c] = "done"
        /\ Len(result[c][1]) >= 10

\* C7: a request whose transport or decode failed ends the call in failure:
\* nothing is returned, the request is not issued again and none follows.
C7_FailFast ==
    \A c \in Callers :
        /\ pc[c] = "failed" => /\ result[c] = None
                               /\ Len(requests[c]) = Len(pages[c]) + 1
        /\ pc[c] \in {"loop", "done"} => Len(requests[c]) = Len(pages[c])
        /\ pc[c] = "awaiting" => Len(requests[c]) = Len(pages[c]) + 1

C7_Witness ==
    \E c \in Callers :
        /\ pc[c] = "failed"
        /\ Len(pages[c]) >= 2
        /\ all_items[c] # <<>>
        /\ result[c] = None

\* The limit the claim expects on the requests of caller c: 50 when the
\* caller passed no options or no limit, the caller's limit otherwise.
ClaimedLimit(c) ==
    IF query_params[c] = None \/ query_params[c][1].limit = None
      THEN 50
      ELSE query_params[c][1].limit[1]

\* The same, with a limit of 0 counted as no limit.
NonZeroLimit(c) ==
    IF query_params[c] = None \/ query_params[c][1].limit \in {None, Some(0)}
      THEN 50
      ELSE query_params[c][1].limit[1]

\* Every request of caller c carries limit = lim, and lim is the value the
\* exhaustion test compared every page with.
LimitIs(c, lim) ==
    /\ \A i \in 1..Len(requests[c]) :
           QueryValue(requests[c][i], "limit") = Some(IntStr(lim))
    /\ \A i \in 1..Len(pages[c]) :
           /\ (i < Len(requests[c]) \/ pc[c] = "loop") =>
                  (Len(pages[c][i]) >= lim /\ pages[c][i] # <<>>)
           /\ (i = Len(requests[c]) /\ pc[c] = "done" /\ ~warned[c]) =>
                  (Len(pages[c][i]) < lim \/ pages[c][i] = <<>>)

\* C8 as stated: the limit is 50 when the caller specified none, and the
\* caller's own value whenever the caller specified one.
C8_CallerLimitUnchanged ==
    \A c \in Callers : pc[c] \notin {"idle", "off"} => LimitIs(c, ClaimedLimit(c))

\* C8, amended: the limit is 50 when the caller specified none or specified
\* 0, and the caller's own value when the caller specified a non-zero one.
C8_NonZeroLimitUnchanged ==
    \A c \in Callers : pc[c] \notin {"idle", "off"} => LimitIs(c, NonZeroLimit(c))

C8_Witness ==
    \E c \in Callers :
        /\ Len(requests[c]) >= 2
        /\ query_params[c] # None
        /\ query_params[c][1].limit = Some(0 - 1)
        /\ QueryValue(requests[c][2], "limit") = Some(<<"-", "1">>)

\* C9: a call has at most one request in flight, issued only when every
\* earlier response has been decoded and appended, and holds a connection
\* exactly while that request is in flight: none after a failure or return.
C9_OneRequestInFlight ==
    \A c \in Callers :
        /\ open[c] \in {0, 1}
        /\ open[c] = 1 <=> pc[c] = "awaiting"
        /\ pc[c] = "awaiting" => /\ Len(requests[c]) = Len(pages[c]) + 1
                                 /\ all_items[c] = Concat(pages[c])
        /\ Len(requests[c]) <= Len(pages[c]) + 1

C9_Witness ==
    \E c \in Callers :
        /\ pc[c] = "failed"
        /\ Len(requests[c]) >= 2
        /\ open[c] = 0

(***************************************************************************)
(* The engine run alone: lines 145-183 as a function of the pages the call *)
(* receives.                                                               *)
(***************************************************************************)
SoloStart(qp) ==
    [params |-> EntryParams(qp), items |-> <<>>, count |-> 0, reqs |-> <<>>,
     ended |-> FALSE, valid |-> TRUE]

SoloStep(ep, s, page) ==
    IF s.ended \/ ~LoopTest(s.count) THEN [s EXCEPT !.valid = FALSE]
    ELSE LET items == Extend(s.items, page)
             reqs == Append(s.reqs, BuildUrl(ep, None, Some(s.params)))
         IN IF PageEndsLoop(page, s.params.limit[1])
              THEN [s EXCEPT !.items = items, !.reqs = reqs, !.ended = TRUE]
              ELSE [s EXCEPT !.items = items, !.reqs = reqs,
                             !.params.start_after = Some(NextCursor(page)),
                             !.count = @ + 1]

RECURSIVE SoloRun(_, _, _)
SoloRun(ep, qp, ps) ==
    IF ps = <<>> THEN SoloStart(qp)
    ELSE SoloStep(ep, SoloRun(ep, qp, SubSeq(ps, 1, Len(ps) - 1)), Last(ps))

\* C10: whatever the interleaving, each caller's requests and result are
\* those of the engine run alone on the caller's own endpoint and options
\* against the pages that caller received.
C10_SameAsAlone ==
    \A c \in Callers :
        pc[c] \notin {"idle", "off"} =>
            LET s == SoloRun(endpoint[c], query_params[c], pages[c])
                next == BuildUrl(endpoint[c], None, Some(s.params))
            IN /\ s.valid
               /\ pc[c] = "loop" => (requests[c] = s.reqs /\ ~s.ended)
               /\ pc[c] \in {"awaiting", "failed"} =>
                      /\ ~s.ended /\ LoopTest(s.count)
                      /\ requests[c] = Append(s.reqs, next)
                      /\ result[c] = None
               /\ pc[c] = "done" =>
                      /\ s.ended \/ ~LoopTest(s.count)
                      /\ requests[c] = s.reqs
                      /\ result[c] = Some(s.items)

C10_Witness ==
    \E c, d \in Callers :
        /\ c # d
        /\ pc[c] = "awaiting" /\ pc[d] = "done"
        /\ Len(requests[c]) >= 3 /\ Len(requests[d]) >= 3
        /\ query_params[c] # query_params[d]
        /\ QueryValue(Last(requests[c]), "start_after")
               # QueryValue(Last(requests[d]), "start_after")

(***************************************************************************)
(* Specification: a caller passes the same options object to two           *)
(* successive calls against the synthetic endpoint, which does not change. *)
(***************************************************************************)
\* The options a caller builds once and keeps: none, a filter only (as
\* inventory.py lines 17-19 build them), or a page size.
ReuseArgs ==
    {None, Some([ListQueryParams EXCEPT !.inventory_exists = Some(TRUE)])}
    \cup {Some([ListQueryParams EXCEPT !.limit = Some(l)]) : l \in 1..MaxLimit}

CallReuse(c) == \E ep \in Endpoints, qp \in ReuseArgs : Call(c, ep, qp)

\* The caller invokes the engine again with the object of its first call
\* (lines 145-152): the engine works on that very object, in the state the
\* first call left it in; a caller that passed no object passes none again.
Again(c) ==
    /\ pc[c] = "done"
    /\ earlier[c] = <<>>
    /\ earlier' = [earlier EXCEPT
           ![c] = Append(@, [requests |-> requests[c], result |-> result[c]])]
    /\ heap' = [heap EXCEPT
           ![current_params[c]] =
               EntryParams(IF query_params[c] = None THEN None ELSE Some(@))]
    /\ all_items' = [all_items EXCEPT ![c] = <<>>]
    /\ page_count' = [page_count EXCEPT ![c] = 0]
    /\ requests' = [requests EXCEPT ![c] = <<>>]
    /\ pages' = [pages EXCEPT ![c] = <<>>]
    /\ result' = [result EXCEPT ![c] = None]
    /\ warned' = [warned EXCEPT ![c] = FALSE]
    /\ reported' = [reported EXCEPT ![c] = None]
    /\ pc' = [pc EXCEPT ![c] = "loop"]
    /\ UNCHANGED <<endpoint, query_params, current_params, open, store,
                   given, returned>>

NextReuse ==
    \E c \in Callers :
        \/ CallReuse(c)
        \/ Issue(c)
        \/ Exhaust(c)
        \/ ReceiveSynth(c)
        \/ Again(c)

SpecReuse == InitSynth /\ [][NextReuse]_vars

\* C11: a call carries no memory of prior calls: the engine leaves the
\* caller's options (limit, start_after) as the caller set them, so the
\* second of two successive calls with the same options object against an
\* unchanged remote sends the same first request and returns the same
\* collection as the first.
C11_SameOnReuse ==
    \A c \in Callers :
        /\ (pc[c] = "done" /\ query_params[c] # None) =>
               /\ heap[current_params[c]].limit = query_params[c][1].limit
               /\ heap[current_params[c]].start_after = query_params[c][1].start_after
        /\ (earlier[c] # <<>> /\ requests[c] # <<>>) =>
               requests[c][1] = earlier[c][1].requests[1]
        /\ (earlier[c] # <<>> /\ pc[c] = "done") =>
               result[c] = earlier[c][1].result

(***************************************************************************)
(* Operations evaluated on their own: the input is drawn at the start, the *)
(* operation runs once on it, and the engine takes no part.                *)
(***************************************************************************)
engine == <<pc, endpoint, query_params, heap, current_params, all_items,
            page_count, open, requests, pages, result, warned, reported,
            store, earlier>>

EngineOff == EngineInit({}, <<>>)

(***************************************************************************)
(* Specification: as_query_param_str on every configuration of options.    *)
(***************************************************************************)
OptBool == {None, Some(TRUE), Some(FALSE)}

\* ListQueryParams objects: each boolean unset, true or false; the limit
\* unset, zero, negative or positive; the strings unset, empty or not.
QueryConfigs ==
    [inventory_negative : OptBool, complete : OptBool, inventory_exists : OptBool,
     limit : {None, Some(0), Some(0 - 1), Some(MaxLimit)},
     start_after : {None, Some(<<>>), Some(<<"a", " ">>)},
     order_by : {None, Some(<<"n">>)},
     order_by_direction : {None, Some(<<"a", "s", "c">>)}]

InitQuery ==
    /\ EngineOff
    /\ given \in QueryConfigs
    /\ returned = None

CallAsQueryParamStr ==
    /\ returned = None
    /\ returned' = Some(AsQueryParamStr(given))
    /\ UNCHANGED <<engine, given>>

NextQuery == CallAsQueryParamStr

SpecQuery == InitQuery /\ [][NextQuery]_vars

KeyOrder == <<"inventory_negative", "complete", "inventory_exists", "limit",
              "start_after", "order_by", "order_by_direction">>
KeyIndex(k) == CHOOSE i \in 1..Len(KeyOrder) : KeyOrder[i] = k
BoolKeys == {"inventory_negative", "complete", "inventory_exists"}

\* C12: as_query_param_str returns a string with a parameter only for
\* options that are set, each at most once and in the fixed order
\* inventory_negative, complete, inventory_exists, limit, start_after,
\* order_by, order_by_direction; a boolean set to false is rendered as the
\* literal false, not omitted; the result is None when no option is set.
C12_QueryString ==
    returned # None =>
        LET r == returned[1]
            ps == IF r = None THEN <<>> ELSE r[1]
        IN /\ (\A k \in DOMAIN given : given[k] = None) => r = None
           /\ \A i \in 1..Len(ps) :
                  /\ \E n \in 1..Len(KeyOrder) : KeyOrder[n] = ps[i][1]
                  /\ given[ps[i][1]] # None
           /\ \A i, j \in 1..Len(ps) :
                  i < j => KeyIndex(ps[i][1]) < KeyIndex(ps[j][1])
           /\ \A k \in BoolKeys :
                  /\ given[k] = Some(FALSE) =>
                         \E i \in 1..Len(ps) : ps[i] = <<k, <<"f", "a", "l", "s", "e">> >>
                  /\ given[k] = Some(TRUE) =>
                         \E i \in 1..Len(ps) : ps[i] = <<k, <<"t", "r", "u", "e">> >>

\* A false boolean is rendered, as the only parameter of the string.
C12_Witness ==
    /\ returned # None
    /\ given.complete = Some(FALSE)
    /\ returned[1] = Some(<< <<"complete", <<"f", "a", "l", "s", "e">> >> >>)

(***************************************************************************)
(* Specification: the inventory views.  Each of the four categories is     *)
(* fetched with the paginated engine; the fetch either raises (None) or    *)
(* returns the records in order.                                           *)
(***************************************************************************)
Categories == {"fermentables", "hops", "yeasts", "miscs"}

\* An inventory record: its name and its optional amount in stock.
Item(name, inventory) == [name |-> name, inventory |-> inventory]

Amounts == {None, Some(0), Some(0 - 1), Some(2)}

\* What a fetch can give: a failure, or up to two records with any amounts;
\* the three categories after the first get a failure, nothing or one record.
FetchedRich ==
    {None, Some(<<>>)}
    \cup {Some(<<Item("a", x)>>) : x \in Amounts}
    \cup {Some(<<Item("a", x), Item("b", y)>>) : x \in Amounts, y \in Amounts}
FetchedFew == {None, Some(<<>>), Some(<<Item("c", Some(2))>>)}

\* inventory.py lines 23-34: one dict per fetched record, none left out.
SummaryEntry(rec) == [Name |-> rec.name, Amount |-> rec.inventory]
GetSummary(fetched) ==
    IF fetched = None THEN None
    ELSE Some([i \in 1..Len(fetched[1]) |-> SummaryEntry(fetched[1][i])])

\* server.py lines 328-355: each summary is fetched in its own try; the
\* except clause logs and continues with the empty list.
SummaryOrEmpty(fetched) ==
    IF GetSummary(fetched) = None THEN <<>> ELSE GetSummary(fetched)[1]

\* inventory_summary (server.py lines 323-391): the four sections.
InventorySummary(g) ==
    [op |-> "inventory_summary", failed |-> FALSE,
     body |-> [cat \in Categories |-> SummaryOrEmpty(g[cat])]]

\* server.py lines 99, 178, 257, 779: the test that keeps an item.
InStockTruthy(item) == item.inventory # None /\ item.inventory[1] # 0
InStock(item) ==
    /\ item.inventory # None /\ item.inventory[1] # 0
    /\ item.inventory[1] > 0

RECURSIVE Formatted(_)
Formatted(items) ==
    IF items = <<>> THEN <<>>
    ELSE LET rest == Formatted(SubSeq(items, 1, Len(items) - 1))
             item == Last(items)
         IN IF InStock(item) THEN Append(rest, SummaryEntry(item)) ELSE rest

\* The list views read_fermentables, read_hops, read_yeasts and
\* read_miscs_list (server.py lines 90-112, 167-192, 246-271, 769-790): a
\* failed fetch is logged and raised again.
ReadList(cat, fetched) ==
    IF fetched = None
      THEN [op |-> cat, failed |-> TRUE, body |-> <<>>]
      ELSE [op |-> cat, failed |-> FALSE, body |-> Formatted(fetched[1])]

InitInventory ==
    /\ EngineOff
    /\ given \in [fermentables : FetchedRich, hops : FetchedFew,
                  yeasts : FetchedFew, miscs : FetchedFew]
    /\ returned = None

CallInventorySummary ==
    /\ returned = None
    /\ returned' = Some(InventorySummary(given))
    /\ UNCHANGED <<engine, given>>

CallReadList ==
    /\ returned = None
    /\ \E cat \in Categories : returned' = Some(ReadList(cat, given[cat]))
    /\ UNCHANGED <<engine, given>>

NextInventory == CallInventorySummary \/ CallReadList

SpecInventory == InitInventory /\ [][NextInventory]_vars

\* The fetches an operation makes.
FetchesOf(op) == IF op = "inventory_summary" THEN Categories ELSE {op}

\* C13: every failure inside a tool-facing operation reaches the caller as
\* a failure, never as a silent default; in particular inventory_summary
\* fails when one of its four category fetches fails.
C13_FailuresReachCaller ==
    returned # None =>
        ((\E cat \in FetchesOf(returned[1].op) : given[cat] = None)
             => returned[1].failed)

\* An item whose inventory is present and strictly greater than zero.
Positive(item) == item.inventory # None /\ item.inventory[1] > 0

\* C14: a list view renders exactly the fetched items whose inventory is
\* present and strictly greater than zero, in the order fetched; a summary
\* view renders one entry for every record its fetch returned, without
\* filtering.
C14_ListFiltersSummaryDoesNot ==
    returned # None =>
        LET r == returned[1]
        IN IF r.op = "inventory_summary"
             THEN \A cat \in Categories :
                      given[cat] # None =>
                          /\ Len(r.body[cat]) = Len(given[cat][1])
                          /\ \A i \in 1..Len(given[cat][1]) :
                                 r.body[cat][i].Name = given[cat][1][i].name
             ELSE given[r.op] # None =>
                      LET kept == SelectSeq(given[r.op][1], Positive)
                      IN /\ Len(r.body) = Len(kept)
                         /\ \A i \in 1..Len(kept) : r.body[i].Name = kept[i].name

\* A list view that dropped an item without stock and one with negative
\* stock; a summary that kept an item without stock.
C14_Witness ==
    /\ returned # None
    /\ given.fermentables = Some(<<Item("a", Some(0 - 1)), Item("b", Some(2))>>)
    /\ returned[1].op = "fermentables"
    /\ Len(returned[1].body) = 1

C14_WitnessSummary ==
    /\ returned # None
    /\ given.fermentables = Some(<<Item("a", None), Item("b", Some(0))>>)
    /\ returned[1].op = "inventory_summary"
    /\ Len(returned[1].body["fermentables"]) = 2

(***************************************************************************)
(* get_batch_detail (server.py lines 433-661).  A quantity is an integer   *)
(* count of its smallest rendered unit: thousandths for a gravity,         *)
(* hundredths for a percentage, a pH and a volume.                         *)
(***************************************************************************)
RECURSIVE Pow10(_)
Pow10(n) == IF n = 0 THEN 1 ELSE 10 * Pow10(n - 1)

RECURSIVE ZeroPad(_, _)
ZeroPad(s, width) == IF Len(s) >= width THEN s ELSE ZeroPad(<<"0">> \o s, width)

\* f"{delta:+.3f}" and f"{delta:+.2f}": the sign, always, then the value
\* with the given number of decimals.
FormatSigned(d, decimals) ==
    LET a == IF d < 0 THEN 0 - d ELSE d
    IN (IF d < 0 THEN <<"-">> ELSE <<"+">>)
       \o NatStr(a \div Pow10(decimals)) \o <<".">>
       \o ZeroPad(NatStr(a % Pow10(decimals)), decimals)

\* The measured fields in the order the code renders them, each with the
\* recipe attribute it is compared to, if any, and the decimals of its delta
\* (lines 498-560 the brew day fields, lines 569-620 the fermentation ones).
MeasuredField(field, target, decimals) ==
    [field |-> field, target |-> target, decimals |-> decimals]
MeasuredFields ==
    <<MeasuredField("measured_mash_ph", Some("mash_ph"), 2),
      MeasuredField("measured_first_wort_gravity", None, 3),
      MeasuredField("measured_pre_boil_gravity", Some("pre_boil_gravity"), 3),
      MeasuredField("measured_boil_size", Some("boil_size"), 2),
      MeasuredField("measured_post_boil_gravity", Some("post_boil_gravity"), 3),
      MeasuredField("measured_kettle_size", None, 2),
      MeasuredField("measured_og", Some("og"), 3),
      MeasuredField("measured_batch_size", Some("batch_size"), 2),
      MeasuredField("measured_fermenter_top_up", None, 2),
      MeasuredField("measured_fg", Some("fg"), 3),
      MeasuredField("measured_abv", Some("abv"), 2),
      MeasuredField("measured_attenuation", Some("attenuation"), 2),
      MeasuredField("measured_bottling_size", None, 2),
      MeasuredField("measured_efficiency", Some("efficiency"), 2),
      MeasuredField("measured_mash_efficiency", Some("mash_efficiency"), 2),
      MeasuredField("measured_kettle_efficiency", None, 2),
      MeasuredField("measured_conversion_efficiency", None, 2)>>

MeasuredNames == {MeasuredFields[i].field : i \in 1..Len(MeasuredFields)}
TargetNames ==
    {MeasuredFields[i].target[1] :
         i \in {j \in 1..Len(MeasuredFields) : MeasuredFields[j].target # None}}

\* getattr(item.recipe, 'og', None) if item.recipe else None
TargetOf(recipe, f) ==
    IF recipe # None /\ f.target # None THEN recipe[1][f.target[1]] ELSE None

\* The tests 'if item.measured_og:' and 'if target_og:'.
HasValuePresent(o) == o # None
HasValue(o) == TruthyInt(o)

\* One measured field: no line when the test on the measured value fails,
\* the value with its delta when the test on the target holds, the value
\* alone otherwise.
MeasurementLine(f, measured, target) ==
    IF ~HasValue(measured) THEN <<>>
    ELSE IF HasValue(target)
      THEN <<[field |-> f.field, value |-> measured[1],
              delta |-> Some(FormatSigned(measured[1] - target[1], f.decimals))]>>
      ELSE <<[field |-> f.field, value |-> measured[1], delta |-> None]>>

RECURSIVE MeasurementLines(_, _)
MeasurementLines(item, n) ==
    IF n = 0 THEN <<>>
    ELSE MeasurementLines(item, n - 1)
         \o MeasurementLine(MeasuredFields[n], item.measured[MeasuredFields[n].field],
                            TargetOf(item.recipe, MeasuredFields[n]))

\* The marker of an absent timestamp.
NotAvailable == <<"N", "/", "A">>

\* datetime.fromtimestamp(ms / 1000).strftime("%Y-%m-%d %H:%M:%S"): the
\* local time of that second; the milliseconds are not rendered.
FromTimestamp(ms) == [second |-> ms \div 1000]
\* d.strftime("%Y-%m-%d %H:%M:%S") of a decoded datetime, held in seconds.
Strftime(d) == [second |-> d]

\* Lines 437-443: the brew date, epoch milliseconds.
BrewDateStr(brew_date) ==
    IF TruthyInt(brew_date) THEN FromTimestamp(brew_date[1]) ELSE NotAvailable
\* Lines 445-459 and 636: a decoded datetime, or the marker.
DateStr(d) == IF d # None THEN Strftime(d[1]) ELSE NotAvailable

\* A failure leaving the operation: the except clause logs and raises again.
Raised == [failed |-> TRUE, body |-> <<>>]

\* Line 630: note.timestamp / 1000 raises TypeError on None.
NoteTimeRaises(note) == note.timestamp = None
NoteTime(note) == FromTimestamp(note.timestamp[1])

read_batch_detail(item) ==
    IF \E i \in 1..Len(item.notes) : NoteTimeRaises(item.notes[i])
      THEN Raised
      ELSE [failed |-> FALSE,
            body |-> [brew_date |-> BrewDateStr(item.brew_date),
                      fermentation_start |-> DateStr(item.fermentation_start_date),
                      fermentation_end |-> DateStr(item.fermentation_end_date),
                      bottling_date |-> DateStr(item.bottling_date),
                      measured |-> MeasurementLines(item, Len(MeasuredFields)),
                      notes |-> [i \in 1..Len(item.notes) |-> NoteTime(item.notes[i])],
                      measurements |-> [i \in 1..Len(item.measurements) |->
                                            DateStr(item.measurements[i].time)]]]

(***************************************************************************)
(* Specification: get_batch_detail on batches whose measured values and    *)
(* recipe targets are absent, zero or not zero.                            *)
(***************************************************************************)
\* The fields that vary, with a measured value and a recipe target each:
\* a gravity 1.050 against 1.045, a percentage 5.20 against 5.00, a volume
\* 20.00 against 21.00 and a pH 5.40 against 5.40.
VariedTargets == {"og", "abv", "batch_size", "mash_ph"}
SampleMeasured ==
    [measured_og |-> 1050, measured_abv |-> 520, measured_batch_size |-> 2000,
     measured_mash_ph |-> 540, measured_kettle_size |-> 2500]
SampleTarget == [og |-> 1045, abv |-> 500, batch_size |-> 2100, mash_ph |-> 540]

MeasuredValues ==
    {[f \in MeasuredNames |-> IF f \in DOMAIN v THEN v[f] ELSE None] :
         v \in [measured_og : {None, Some(0), Some(SampleMeasured.measured_og)},
                measured_abv : {None, Some(0), Some(SampleMeasured.measured_abv)},
                measured_batch_size : {None, Some(0), Some(SampleMeasured.measured_batch_size)},
                measured_mash_ph : {None, Some(0), Some(SampleMeasured.measured_mash_ph)},
                measured_kettle_size : {None, Some(SampleMeasured.measured_kettle_size)}]}

Recipes ==
    {None} \cup
    {Some([t \in TargetNames |-> IF t \in VariedTargets THEN v[t] ELSE None]) :
         v \in [VariedTargets -> {None, Some(0)}]
               \cup {[t \in VariedTargets |-> Some(SampleTarget[t])]}
               \cup {[t \in VariedTargets |->
                         IF t = u THEN Some(SampleTarget[t]) ELSE None] :
                             u \in VariedTargets}}

\* A batch with every date present, one note and one measurement.
Batch(recipe, measured) ==
    [brew_date |-> Some(1500), fermentation_start_date |-> Some(2),
     fermentation_end_date |-> Some(3), bottling_date |-> Some(4),
     notes |-> <<[timestamp |-> Some(2500)]>>,
     measurements |-> <<[time |-> Some(5)]>>,
     recipe |-> recipe, measured |-> measured]

InitBatch ==
    /\ EngineOff
    /\ given \in {Batch(r, m) : r \in Recipes, m \in MeasuredValues}
    /\ returned = None

CallReadBatchDetail ==
    /\ returned = None
    /\ returned' = Some(read_batch_detail(given))
    /\ UNCHANGED <<engine, given>>

NextBatch == CallReadBatchDetail

SpecBatch == InitBatch /\ [][NextBatch]_vars

\* The rendered line of a measured field, if there is one.
LinesOf(body, field) ==
    {i \in 1..Len(body.measured) : body.measured[i].field = field}

\* C15: get_batch_detail renders a delta for every measured field that is
\* present and whose recipe target is present, a target of zero included:
\* measured minus target, with its sign, 3 decimals for a gravity and 2 for
\* a percentage, a pH and a volume.
C15_DeltaWheneverTargetPresent ==
    returned # None =>
        \A n \in 1..Len(MeasuredFields) :
            LET f == MeasuredFields[n]
                m == given.measured[f.field]
                t == TargetOf(given.recipe, f)
            IN (f.target # None /\ m # None /\ t # None) =>
                   \E i \in LinesOf(returned[1].body, f.field) :
                       returned[1].body.measured[i].delta =
                           Some(FormatSigned(m[1] - t[1], f.decimals))

\* C16: a measured field that is present while its recipe target is absent
\* is rendered as the raw measured value with no delta.
C16_RawValueWithoutTarget ==
    returned # None =>
        \A n \in 1..Len(MeasuredFields) :
            LET f == MeasuredFields[n]
                m == given.measured[f.field]
                t == TargetOf(given.recipe, f)
            IN (f.target # None /\ m # None /\ t = None) =>
                   /\ LinesOf(returned[1].body, f.field) # {}
                   /\ \A i \in LinesOf(returned[1].body, f.field) :
                          /\ returned[1].body.measured[i].value = m[1]
                          /\ returned[1].body.measured[i].delta = None

(***************************************************************************)
(* get_batch_brewtracker (server.py lines 878-926).  Stage and step        *)
(* indexes count from 0, as enumerate does.                                *)
(***************************************************************************)
MaxStages == 3
MaxSteps == 2

\* Line 896: the state of stage i.
StageIcon(tracker, i) ==
    IF i = tracker.stage /\ tracker.active THEN "in-progress"
    ELSE IF i < tracker.stage THEN "completed"
    ELSE "pending"

\* Line 902: the state of step j of stage i.
StepIconOwnStage(tracker, i, j) ==
    IF j = tracker.stages[i + 1].step /\ tracker.active THEN "in-progress"
    ELSE IF j < tracker.stages[i + 1].step THEN "completed"
    ELSE "pending"
StepIcon(tracker, i, j) ==
    IF i = tracker.stage /\ j = tracker.stages[i + 1].step /\ tracker.active
      THEN "in-progress"
    ELSE IF j < tracker.stages[i + 1].step \/ i < tracker.stage THEN "completed"
    ELSE "pending"

\* The operation: the notice when the tracker has no name or no stages
\* (lines 884-885), else one icon per stage and per step, in order.
get_batch_brewtracker(tracker) ==
    IF ~TruthyStr(tracker.name) \/ tracker.stages = <<>>
      THEN [failed |-> FALSE, body |-> None]
      ELSE [failed |-> FALSE,
            body |-> Some([n \in 1..Len(tracker.stages) |->
                [icon |-> StageIcon(tracker, n - 1),
                 steps |-> [k \in 1..tracker.stages[n].steps |->
                                StepIcon(tracker, n - 1, k - 1)]]])]

\* A stage: the index of its current step and the number of its steps.
Stages == [step : 0..MaxSteps, steps : {0, MaxSteps}]

RECURSIVE SeqsUpTo(_, _)
SeqsUpTo(S, n) ==
    IF n = 0 THEN {<<>>}
    ELSE LET shorter == SeqsUpTo(S, n - 1)
         IN shorter \cup {Append(s, x) : s \in {t \in shorter : Len(t) = n - 1}, x \in S}

Trackers ==
    [name : {None, Some(<<"B">>)}, active : BOOLEAN, stage : 0..MaxStages,
     stages : SeqsUpTo(Stages, MaxStages)]

InitTracker ==
    /\ EngineOff
    /\ given \in Trackers
    /\ returned = None

CallGetBatchBrewtracker ==
    /\ returned = None
    /\ returned' = Some(get_batch_brewtracker(given))
    /\ UNCHANGED <<engine, given>>

NextTracker == CallGetBatchBrewtracker

SpecTracker == InitTracker /\ [][NextTracker]_vars

\* The three states by the rule 'completed below the current index,
\* in-progress at it when active, pending otherwise'.
StateByIndex(index, current, active) ==
    IF index < current THEN "completed"
    ELSE IF index = current /\ active THEN "in-progress"
    ELSE "pending"

\* The tracker was rendered: r is the list of stage entries.
Rendered == returned # None /\ returned[1].body # None

\* C17 as stated: every stage is rendered by the rule on the tracker's
\* stage, and every step by the same rule on its own stage's step.
C17_StatesByOwnIndex ==
    Rendered =>
        \A n \in 1..Len(given.stages) :
            /\ returned[1].body[1][n].icon
                   = StateByIndex(n - 1, given.stage, given.active)
            /\ \A k \in 1..given.stages[n].steps :
                   returned[1].body[1][n].steps[k]
                       = StateByIndex(k - 1, given.stages[n].step, given.active)

\* C17: every stage and every step gets exactly one of the three states.
\* A stage is completed below the tracker's stage, in-progress at it when
\* the tracker is active, pending otherwise.  A step is in-progress when
\* its stage is the tracker's stage, its index is that stage's step and the
\* tracker is active; otherwise completed when its index is below its
\* stage's step or its stage is below the tracker's stage; pending
\* otherwise.
C17_StatesOfStagesAndSteps ==
    Rendered =>
        /\ Len(returned[1].body[1]) = Len(given.stages)
        /\ \A n \in 1..Len(given.stages) :
            LET e == returned[1].body[1][n]
                st == given.stages[n]
            IN /\ e.icon = StateByIndex(n - 1, given.stage, given.active)
               /\ DOMAIN e.steps = 1..st.steps
               /\ \A k \in 1..st.steps :
                      LET current == n - 1 = given.stage /\ k - 1 = st.step
                                     /\ given.active
                          passed == k - 1 < st.step \/ n - 1 < given.stage
                      IN /\ e.steps[k] \in {"completed", "in-progress", "pending"}
                         /\ e.steps[k] = "in-progress" <=> current
                         /\ e.steps[k] = "completed" <=> (~current /\ passed)

\* Stage 1 of three is current and the tracker active: the stages are
\* completed, in-progress, pending, and the step of the first stage at that
\* stage's own step index is completed, not in-progress.
C17_Witness ==
    /\ Rendered
    /\ given.stage = 1 /\ given.active /\ Len(given.stages) = 3
    /\ [n \in 1..3 |-> returned[1].body[1][n].icon]
           = <<"completed", "in-progress", "pending">>
    /\ given.stages[1].steps = MaxSteps /\ given.stages[1].step = 0
    /\ returned[1].body[1][1].steps[1] = "completed"

(***************************************************************************)
(* get_batch_readings_summary and get_batch_last_reading (server.py lines  *)
(* 933-1041).  A temperature is an integer count of tenths of a degree, a  *)
(* specific gravity of ten-thousandths.                                    *)
(***************************************************************************)
MaxReadings == 4

\* limit: int = 10 (server.py:985)
DEFAULT_READINGS_LIMIT == 10
\* temp_change > 0.5 (server.py:1029), in tenths of a degree
TEMP_THRESHOLD == 5
\* sg_change > 0.002 (server.py:1034), in ten-thousandths
SG_THRESHOLD == 20

\* Line 994: readings.root[-limit:] if len(readings.root) > limit else
\* readings.root.  A slice from -0 is the slice from 0; a slice from a
\* positive index drops that many readings from the front.
RecentReadings(root, limit) ==
    IF Len(root) > limit
      THEN IF limit > 0 THEN SubSeq(root, Len(root) - limit + 1, Len(root))
           ELSE IF limit = 0 THEN root
           ELSE SubSeq(root, (0 - limit) + 1, Len(root))
      ELSE root

\* Lines 1029 and 1034: the class of a change.
TrendInclusive(change, threshold) ==
    IF change >= threshold THEN "Rising"
    ELSE IF change <= 0 - threshold THEN "Falling"
    ELSE "Stable"
Trend(change, threshold) ==
    IF change > threshold THEN "Rising"
    ELSE IF change < 0 - threshold THEN "Falling"
    ELSE "Stable"

\* Lines 1027 and 1032: the test that a trend line is written.
BothTruthy(a, b) == TruthyInt(a) /\ TruthyInt(b)
BothPresent(a, b) == a # None /\ b # None

\* Lines 1027-1035: the trend line of one quantity, from the first and the
\* last reading of the window.
TrendLine(a, b, threshold, decimals) ==
    IF BothPresent(a, b)
      THEN Some([trend |-> Trend(b[1] - a[1], threshold),
                 change |-> FormatSigned(b[1] - a[1], decimals)])
      ELSE None

\* Lines 1022-1035.
TrendAnalysis(recent) ==
    IF Len(recent) >= 3
      THEN Some([temp |-> TrendLine(recent[1].temp, Last(recent).temp,
                                    TEMP_THRESHOLD, 1),
                 sg |-> TrendLine(recent[1].sg, Last(recent).sg,
                                  SG_THRESHOLD, 4)])
      ELSE None

\* Line 1007: reading.time / 1000 raises TypeError on None.
ReadingTimeRaises(reading) == reading.time = None

\* Lines 1006-1019: the line of one reading.
ReadingLine(reading) ==
    [time |-> FromTimestamp(reading.time[1]), temp |-> reading.temp,
     sg |-> reading.sg]

get_batch_readings_summary(root, limit) ==
    IF root = <<>> THEN [failed |-> FALSE, body |-> None]
    ELSE LET recent == RecentReadings(root, limit)
         IN IF \E i \in 1..Len(recent) : ReadingTimeRaises(recent[i])
              THEN Raised
              ELSE [failed |-> FALSE,
                    body |-> Some([total |-> Len(root),
                                   showing |-> Len(recent),
                                   lines |-> [i \in 1..Len(recent) |->
                                                  ReadingLine(recent[i])],
                                   trend |-> TrendAnalysis(recent)])]

(***************************************************************************)
(* Specification: get_batch_readings_summary on up to MaxReadings readings *)
(* whose temperature and gravity are absent or lie at, within or beyond    *)
(* the thresholds of one another.                                          *)
(***************************************************************************)
Reading(time, temp, sg) == [time |-> time, temp |-> temp, sg |-> sg]

ReadingSamples ==
    {Reading(Some(1000), None, None),
     Reading(Some(1000), Some(0), Some(0)),
     Reading(Some(1000), Some(TEMP_THRESHOLD), Some(SG_THRESHOLD)),
     Reading(Some(1000), Some(TEMP_THRESHOLD + 1), Some(SG_THRESHOLD + 1)),
     Reading(Some(1000), Some(0), None),
     Reading(Some(1000), None, Some(0))}

LimitArgs == {0 - 1, 0, MaxReadings - 1, MaxReadings, DEFAULT_READINGS_LIMIT}

InitReadings ==
    /\ EngineOff
    /\ given \in [root : SeqsUpTo(ReadingSamples, MaxReadings), limit : LimitArgs]
    /\ returned = None

CallGetBatchReadingsSummary ==
    /\ returned = None
    /\ returned' = Some(get_batch_readings_summary(given.root, given.limit))
    /\ UNCHANGED <<engine, given>>

NextReadings == CallGetBatchReadingsSummary

SpecReadings == InitReadings /\ [][NextReadings]_vars

\* The summary was rendered: its lines are the displayed window.
Summarised == returned # None /\ ~returned[1].failed /\ returned[1].body # None
Shown == returned[1].body[1].lines
Analysis == returned[1].body[1].trend

\* C18: a trend analysis is produced only when the displayed window holds
\* at least 3 readings; it classifies the change from the first to the
\* last displayed reading only: rising above +0.5 degrees or +0.002
\* gravity, falling below -0.5 or -0.002, stable otherwise, a change of
\* exactly a threshold included.
C18_TrendThresholds ==
    (Summarised /\ Analysis # None) =>
        /\ Len(Shown) >= 3
        /\ Analysis[1].temp # None =>
               LET change == Last(Shown).temp[1] - Shown[1].temp[1]
               IN /\ change > 5 => Analysis[1].temp[1].trend = "Rising"
                  /\ change < 0 - 5 => Analysis[1].temp[1].trend = "Falling"
                  /\ (change >= 0 - 5 /\ change <= 5) =>
                         Analysis[1].temp[1].trend = "Stable"
        /\ Analysis[1].sg # None =>
               LET change == Last(Shown).sg[1] - Shown[1].sg[1]
               IN /\ change > 20 => Analysis[1].sg[1].trend = "Rising"
                  /\ change < 0 - 20 => Analysis[1].sg[1].trend = "Falling"
                  /\ (change >= 0 - 20 /\ change <= 20) =>
                         Analysis[1].sg[1].trend = "Stable"

\* A window cut from more readings, whose temperature and gravity both rose
\* by exactly their threshold: both are stable.
C18_Witness ==
    /\ Summarised /\ Analysis # None
    /\ Len(given.root) > Len(Shown)
    /\ Analysis[1].temp # None /\ Analysis[1].sg # None
    /\ Last(Shown).temp[1] - Shown[1].temp[1] = 5
    /\ Analysis[1].temp[1].trend = "Stable"
    /\ Last(Shown).sg[1] - Shown[1].sg[1] = 20
    /\ Analysis[1].sg[1].trend = "Stable"

\* C19: in the trend analysis the temperature line is written if and only
\* if the first and the last reading of the window both have a
\* temperature, and the gravity line if and only if both have a gravity,
\* each independently of the other.
C19_TrendLinePresence ==
    (Summarised /\ Analysis # None) =>
        /\ Analysis[1].temp # None
               <=> (Shown[1].temp # None /\ Last(Shown).temp # None)
        /\ Analysis[1].sg # None
               <=> (Shown[1].sg # None /\ Last(Shown).sg # None)

\* The gravity line is written without the temperature line: the first
\* reading has no temperature, the last one has, and both have a gravity.
C19_Witness ==
    /\ Summarised /\ Analysis # None
    /\ Shown[1].temp = None /\ Last(Shown).temp # None
    /\ Analysis[1].temp = None
    /\ Analysis[1].sg # None

\* get_batch_last_reading (server.py lines 933-978): line 939 divides
\* reading.time by 1000, which raises TypeError on None.
get_batch_last_reading(reading) ==
    IF ReadingTimeRaises(reading) THEN Raised
    ELSE [failed |-> FALSE,
          body |-> [time |-> FromTimestamp(reading.time[1]),
                    temp |-> reading.temp, sg |-> reading.sg]]

(***************************************************************************)
(* Specification: the operations that render timestamps, on records whose  *)
(* timestamps are present or absent.                                       *)
(***************************************************************************)
NoMeasured == [f \in MeasuredNames |-> None]

TimedBatches ==
    [brew_date : {None, Some(0), Some(1500)},
     fermentation_start_date : {None, Some(2)},
     fermentation_end_date : {None, Some(3)},
     bottling_date : {None, Some(4)},
     notes : SeqsUpTo({[timestamp |-> None], [timestamp |-> Some(2500)]}, 2),
     measurements : SeqsUpTo({[time |-> None], [time |-> Some(5)]}, 1),
     recipe : {None}, measured : {NoMeasured}]

TimedReadings == {Reading(t, Some(0), None) : t \in {None, Some(1000)}}

TimedInputs ==
    {[op |-> "get_batch_detail", item |-> b] : b \in TimedBatches}
    \cup {[op |-> "get_batch_last_reading", item |-> r] : r \in TimedReadings}
    \cup {[op |-> "get_batch_readings_summary", item |-> s] :
              s \in SeqsUpTo(TimedReadings, MaxReadings - 1)}

InitTimes ==
    /\ EngineOff
    /\ given \in TimedInputs
    /\ returned = None

CallReadBatchDetailTimed ==
    /\ returned = None
    /\ given.op = "get_batch_detail"
    /\ returned' = Some(read_batch_detail(given.item))
    /\ UNCHANGED <<engine, given>>

CallGetBatchLastReading ==
    /\ returned = None
    /\ given.op = "get_batch_last_reading"
    /\ returned' = Some(get_batch_last_reading(given.item))
    /\ UNCHANGED <<engine, given>>

CallGetBatchReadingsSummaryTimed ==
    /\ returned = None
    /\ given.op = "get_batch_readings_summary"
    /\ returned' = Some(get_batch_readings_summary(given.item, DEFAULT_READINGS_LIMIT))
    /\ UNCHANGED <<engine, given>>

NextTimes ==
    \/ CallReadBatchDetailTimed
    \/ CallGetBatchLastReading
    \/ CallGetBatchReadingsSummaryTimed

SpecTimes == InitTimes /\ [][NextTimes]_vars

\* An absent timestamp is rendered as the marker.
MarkedIfAbsent(ts, rendered) == ts = None => rendered = NotAvailable

\* C20: every formatter that renders a timestamp (brew date, fermentation
\* and bottling dates, note timestamps, measurement times, sensor reading
\* times) renders an absent one as N/A: the operation does not fail and
\* shows no default date.
C20_AbsentTimestampIsNA ==
    returned # None =>
        LET r == returned[1]
            x == given.item
        IN /\ ~r.failed
           /\ given.op = "get_batch_detail" =>
                  /\ MarkedIfAbsent(x.brew_date, r.body.brew_date)
                  /\ MarkedIfAbsent(x.fermentation_start_date, r.body.fermentation_start)
                  /\ MarkedIfAbsent(x.fermentation_end_date, r.body.fermentation_end)
                  /\ MarkedIfAbsent(x.bottling_date, r.body.bottling_date)
                  /\ \A i \in 1..Len(x.notes) :
                         MarkedIfAbsent(x.notes[i].timestamp, r.body.notes[i])
                  /\ \A i \in 1..Len(x.measurements) :
                         MarkedIfAbsent(x.measurements[i].time, r.body.measurements[i])
           /\ given.op = "get_batch_last_reading" =>
                  MarkedIfAbsent(x.time, r.body.time)
           /\ (given.op = "get_batch_readings_summary" /\ r.body # None) =>
                  \A i \in 1..Len(x) :
                      MarkedIfAbsent(x[i].time, r.body[1].lines[i].time)

(***************************************************************************)
(* create_recipe (server.py lines 1118-1333).  An ingredient entry is a    *)
(* dict: a function from the keys it has to optional values, None being    *)
(* the value null.                                                         *)
(***************************************************************************)
MaxEntries == 2

\* str.strip(): the string without its leading and trailing blanks.
RECURSIVE LStrip(_)
LStrip(s) == IF s # <<>> /\ s[1] = " " THEN LStrip(Tail(s)) ELSE s
RECURSIVE RStrip(_)
RStrip(s) == IF s # <<>> /\ Last(s) = " " THEN RStrip(SubSeq(s, 1, Len(s) - 1)) ELSE s
Strip(s) == RStrip(LStrip(s))

\* [rt.value for rt in RecipeType] (line 1170; the values as the docstring
\* of line 1138 lists them).
RecipeTypes == <<"All Grain", "Extract", "Partial Mash">>

\* Line 1166: not name or not name.strip()
NameMissingUnstripped(name) == name = None \/ name[1] = <<>>
NameMissing(name) == name = None \/ name[1] = <<>> \/ Strip(name[1]) = <<>>

\* Line 1171: recipe_type not in valid_types
TypeInvalid(recipe_type) ==
    recipe_type = None
    \/ \A i \in 1..Len(RecipeTypes) : RecipeTypes[i] # recipe_type[1]

\* Lines 1167, 1172 and 1331-1333: the ValueError that leaves the operation,
\* with what its message names.
Failure(constraint, valid) ==
    [failed |-> TRUE, error |-> Some([names |-> constraint, valid |-> valid]),
     warnings |-> 0, document |-> None]

\* d.get(k) and the truthiness of a name and of an amount.
Get(d, k) == IF k \in DOMAIN d THEN d[k] ELSE None
HasAll(d, keys) == \A k \in keys : k \in DOMAIN d
TruthyText(o) == o # None /\ o[1] # ""

\* The required keys of a hop, a yeast and a misc (lines 1238, 1255, 1270).
Required ==
    [hops |-> {"name", "amount", "alpha", "use", "time"},
     yeasts |-> {"name", "amount", "form"},
     miscs |-> {"name", "amount", "use"},
     fermentables |-> {"name", "amount"}]

\* The test that keeps an entry: line 1223 for a fermentable (d.get, by
\* truthiness), lines 1238, 1255 and 1270 for the others (k in d).
KeptByKeys(kind, d) == HasAll(d, Required[kind])
Kept(kind, d) ==
    IF kind = "fermentables"
      THEN TruthyText(Get(d, "name")) /\ TruthyInt(Get(d, "amount"))
      ELSE HasAll(d, Required[kind])

\* float(x) and int(x) raise TypeError on None: lines 1230, 1245-1248,
\* 1262, 1276.
Converted ==
    [hops |-> {"amount", "alpha", "time"}, yeasts |-> {"amount"},
     miscs |-> {"amount"}, fermentables |-> {"amount"}]
ConversionRaises(kind, d) == \E k \in Converted[kind] : d[k] = None

\* The keys of a built entry: the optional color of a fermentable and time
\* of a misc only when the input value is truthy (lines 1231, 1278); None
\* fields are not serialized (line 1284, exclude_none).
EntryKeys(kind, d) ==
    Required[kind] \cup {"type"}
    \cup (IF kind = "fermentables" /\ TruthyInt(Get(d, "color")) THEN {"color"} ELSE {})
    \cup (IF kind = "miscs" /\ TruthyInt(Get(d, "time")) THEN {"time"} ELSE {})

BuiltEntry(kind, d) ==
    [k \in EntryKeys(kind, d) \ (IF kind = "miscs" THEN {"type"} ELSE {}) |->
        IF k = "type"
          THEN CASE kind = "fermentables" -> "Grain"
                 [] kind = "hops" -> "Pellet"
                 [] OTHER -> "Ale"
          ELSE d[k][1]]

\* The loops of lines 1222-1281 over the entries of one kind.
RECURSIVE BuiltEntries(_, _)
BuiltEntries(kind, ds) ==
    IF ds = <<>> THEN <<>>
    ELSE LET rest == BuiltEntries(kind, SubSeq(ds, 1, Len(ds) - 1))
         IN IF Kept(kind, Last(ds))
              THEN Append(rest, BuiltEntry(kind, Last(ds)))
              ELSE rest

Skipped(kind, ds) == Cardinality({i \in 1..Len(ds) : ~Kept(kind, ds[i])})

\* Lines 1201-1206: step["stepTemp"] and step["stepTime"] raise KeyError
\* on a step without them; the name of a step defaults to "".
MashStepRaises(step) == ~HasAll(step, {"stepTemp", "stepTime"})
MashStep(step) ==
    [name |-> IF "name" \in DOMAIN step THEN step["name"][1] ELSE "",
     stepTemp |-> step["stepTemp"][1], stepTime |-> step["stepTime"][1],
     type |-> "Temperature"]

\* Lines 1198-1208: no mash schedule for no steps.
MashSchedule(mash_steps) ==
    IF mash_steps = <<>> THEN None
    ELSE Some([name |-> "Custom Mash Schedule",
               steps |-> [i \in 1..Len(mash_steps) |-> MashStep(mash_steps[i])]])

\* Lines 1209-1218: the test 'if fermentation_temp'.
TempSuppliedPresent(fermentation_temp) == fermentation_temp # None
TempSupplied(fermentation_temp) == TruthyInt(fermentation_temp)

FermentationSchedule(fermentation_temp) ==
    IF TempSupplied(fermentation_temp)
      THEN Some([name |-> "Custom Fermentation Schedule",
                 steps |-> <<[stepTemp |-> fermentation_temp[1], stepTime |-> 14,
                              type |-> "Primary"]>>])
      ELSE None

\* Lines 1287-1295.
cleanup_fields ==
    {"og", "fg", "ibu", "color", "abv", "attenuation", "buGuRatio", "rbRatio",
     "styleConformity", "fermentableIbu", "extraGravity", "diastaticPower",
     "sumDryHopPerLiter", "avgWeightedHopstandTemp", "yeastToleranceExceededBy",
     "manualFg", "hopStandMinutes", "carbonationStyle"}

\* Lines 1296-1297: the keys popped from the dumped dict, at its top level.
CleanupNothing(keys) == keys
Cleanup(keys) == keys \ cleanup_fields

Kinds == <<"fermentables", "hops", "yeasts", "miscs">>

\* Line 1284 and lines 1296-1297: recipe.model_dump(by_alias=True,
\* exclude_none=True), less the cleanup fields.  a.dumped are the keys with
\* a default other than None that RecipeDetail adds of its own.
RecipeDict(a) ==
    LET mash == MashSchedule(a.mash_steps)
        fermentation == FermentationSchedule(a.fermentation_temp)
        keys == Cleanup({"_id", "name", "author", "type", "batchSize", "boilTime",
                         "style", "fermentables", "hops", "yeasts", "miscs"}
                        \cup a.dumped
                        \cup (IF mash # None THEN {"mash"} ELSE {})
                        \cup (IF fermentation # None THEN {"fermentation"} ELSE {}))
    IN [k \in keys |->
           CASE k = "name" -> Strip(a.name[1])
             [] k = "type" -> a.recipe_type[1]
             [] k = "mash" -> mash[1]
             [] k = "fermentation" -> fermentation[1]
             [] k \in {"fermentables", "hops", "yeasts", "miscs"} ->
                    BuiltEntries(k, a[k])
             [] OTHER -> k]

create_recipe(a) ==
    IF NameMissing(a.name) THEN Failure("name", <<>>)
    ELSE IF TypeInvalid(a.recipe_type) THEN Failure("recipe_type", RecipeTypes)
    ELSE IF \E i \in 1..Len(a.mash_steps) : MashStepRaises(a.mash_steps[i])
      THEN Failure("KeyError", <<>>)
    ELSE IF \E n \in 1..Len(Kinds) : \E i \in 1..Len(a[Kinds[n]]) :
               /\ Kept(Kinds[n], a[Kinds[n]][i])
               /\ ConversionRaises(Kinds[n], a[Kinds[n]][i])
      THEN Failure("TypeError", <<>>)
    ELSE [failed |-> FALSE, error |-> None,
          warnings |-> Skipped("fermentables", a.fermentables) + Skipped("hops", a.hops)
                       + Skipped("yeasts", a.yeasts) + Skipped("miscs", a.miscs),
          document |-> Some(RecipeDict(a))]

(***************************************************************************)
(* Specification: create_recipe on names, recipe types, ingredient lists   *)
(* of up to MaxEntries entries and process steps.                          *)
(***************************************************************************)
RecipeNames ==
    {None, Some(<<>>), Some(<<" ">>), Some(<<" ", " ">>), Some(<<"a">>),
     Some(<<" ", "a", " ", "b", " ">>)}
RecipeTypeArgs ==
    {None, Some(""), Some("all grain"), Some("BIAB")}
    \cup {Some(RecipeTypes[i]) : i \in 1..Len(RecipeTypes)}

\* A dict with the given keys, each holding a value of the entry's kind.
Filled(keys, name) ==
    [k \in keys |-> IF k = "name" THEN Some(name)
                    ELSE IF k \in {"use", "form"} THEN Some("Boil")
                    ELSE Some(5)]

\* The entries of each kind: complete, lacking a required key, and with a
\* required key holding an empty or zero value or null.
EntryVariants ==
    [fermentables |->
        {Filled({"name", "amount"}, "F1"),
         Filled({"name", "amount", "color"}, "F2"),
         Filled({"name"}, "F3"),
         Filled({"amount"}, "F4"),
         [Filled({"name", "amount"}, "F5") EXCEPT !["amount"] = Some(0)],
         [Filled({"name", "amount"}, "F6") EXCEPT !["name"] = Some("")]},
     hops |->
        {Filled(Required["hops"], "H1"),
         Filled(Required["hops"] \ {"time"}, "H2"),
         Filled(Required["hops"] \ {"alpha"}, "H3"),
         [Filled(Required["hops"], "H4") EXCEPT !["time"] = Some(0)],
         [Filled(Required["hops"], "H5") EXCEPT !["time"] = None]},
     yeasts |->
        {Filled(Required["yeasts"], "Y1"),
         Filled(Required["yeasts"] \ {"form"}, "Y2")},
     miscs |->
        {Filled(Required["miscs"], "M1"),
         Filled(Required["miscs"] \cup {"time"}, "M2"),
         Filled(Required["miscs"] \ {"use"}, "M3")}]

MashStepArgs ==
    {Filled({"stepTemp", "stepTime"}, ""), Filled({"name", "stepTemp", "stepTime"}, "Rest"),
     Filled({"name", "stepTime"}, "Cold")}

\* A call with a valid name and type and nothing else.
PlainRecipe ==
    [name |-> Some(<<"a">>), recipe_type |-> Some("All Grain"),
     fermentables |-> <<>>, hops |-> <<>>, yeasts |-> <<>>, miscs |-> <<>>,
     mash_steps |-> <<>>, fermentation_temp |-> None, dumped |-> {}]

\* The calls: every name with every type; every list of fermentables with
\* every list of hops; every list of yeasts and of miscs with the process
\* steps and the keys the dump adds.
RecipeArgs ==
    {[PlainRecipe EXCEPT !.name = n, !.recipe_type = t] :
         n \in RecipeNames, t \in RecipeTypeArgs}
    \cup {[PlainRecipe EXCEPT !.fermentables = f, !.hops = h] :
              f \in SeqsUpTo(EntryVariants["fermentables"], MaxEntries),
              h \in SeqsUpTo(EntryVariants["hops"], MaxEntries)}
    \cup {[PlainRecipe EXCEPT !.yeasts = y, !.miscs = m, !.mash_steps = s,
                              !.fermentation_temp = t, !.dumped = d] :
              y \in SeqsUpTo(EntryVariants["yeasts"], 1),
              m \in SeqsUpTo(EntryVariants["miscs"], 1),
              s \in SeqsUpTo(MashStepArgs, MaxEntries),
              t \in {None, Some(0), Some(18)},
              d \in {{}, {"og", "color", "styleConformity"}}}

InitRecipe ==
    /\ EngineOff
    /\ given \in RecipeArgs
    /\ returned = None

CallCreateRecipe ==
    /\ returned = None
    /\ returned' = Some(create_recipe(given))
    /\ UNCHANGED <<engine, given>>

NextRecipe == CallCreateRecipe

SpecRecipe == InitRecipe /\ [][NextRecipe]_vars

\* The name is empty after trimming; the type is in the enumeration.
Blank(name) == name = None \/ \A i \in 1..Len(name[1]) : name[1][i] = " "
InEnumeration(t) == t \in {Some("All Grain"), Some("Extract"), Some("Partial Mash")}

\* What the failure message names.
Names(r, constraint) == r.error # None /\ r.error[1].names = constraint

\* C21: create_recipe fails with a validation failure and returns no
\* document exactly when the name is empty after trimming or the recipe
\* type is not in the enumeration; the message names the violated
\* constraint and, for the type, lists the valid values; for every other
\* name and type the two checks let the build proceed.
C21_ValidationFailures ==
    returned # None =>
        LET r == returned[1]
        IN /\ Names(r, "name") <=> Blank(given.name)
           /\ Names(r, "recipe_type")
                  <=> (~Blank(given.name) /\ ~InEnumeration(given.recipe_type))
           /\ Names(r, "recipe_type") =>
                  r.error[1].valid = <<"All Grain", "Extract", "Partial Mash">>
           /\ (Blank(given.name) \/ ~InEnumeration(given.recipe_type)) =>
                  r.failed /\ r.document = None
           /\ r.failed <=> r.error # None
           /\ r.failed => r.document = None

\* A name of blanks only is refused, and so is a type in the wrong case.
C21_Witness ==
    /\ returned # None
    /\ given.name = Some(<<" ", " ">>)
    /\ returned[1].failed /\ Names(returned[1], "name")

C21_WitnessType ==
    /\ returned # None
    /\ given.recipe_type = Some("all grain")
    /\ returned[1].failed /\ Names(returned[1], "recipe_type")

\* An entry that has every field of its kind's required set.
Complete(kind, d) == \A k \in Required[kind] : k \in DOMAIN d

\* The names of the entries of a list, in order.
EntryNames(ds) == [i \in 1..Len(ds) |-> ds[i]["name"]]

\* The two validations pass and every mash step has its keys.
Accepted ==
    /\ ~Blank(given.name) /\ InEnumeration(given.recipe_type)
    /\ \A i \in 1..Len(given.mash_steps) : ~MashStepRaises(given.mash_steps[i])

\* C22: an ingredient entry that lacks a field of its kind's required set
\* is dropped with a warning and never aborts the build: the operation
\* succeeds and the recipe holds every complete entry of the input, in
\* input order, and no dropped entry.
C22_OnlyIncompleteDropped ==
    (returned # None /\ Accepted) =>
        /\ ~returned[1].failed
        /\ \A n \in 1..Len(Kinds) :
               LET kind == Kinds[n]
                   complete == SelectSeq(given[kind], LAMBDA d : Complete(kind, d))
               IN /\ Len(returned[1].document[1][kind]) = Len(complete)
                  /\ \A i \in 1..Len(complete) :
                         Some(returned[1].document[1][kind][i]["name"])
                             = complete[i]["name"]
        /\ returned[1].warnings
               = Cardinality({<<n, i>> \in (1..Len(Kinds)) \X (1..MaxEntries) :
                                  /\ i <= Len(given[Kinds[n]])
                                  /\ ~Complete(Kinds[n], given[Kinds[n]][i])})


\* ---- C23 ----
\* The keys of the serialized document at every level: its own keys, the
\* keys of every ingredient entry, and those of the schedules and steps.
SeqKeys(es) == UNION {DOMAIN es[i] : i \in 1..Len(es)}
ScheduleKeys(doc, k) ==
    IF k \in DOMAIN doc THEN DOMAIN doc[k] \cup SeqKeys(doc[k].steps) ELSE {}
NestedKeys(doc) ==
    UNION {SeqKeys(doc[Kinds[i]]) : i \in 1..Len(Kinds)}
    \cup ScheduleKeys(doc, "mash") \cup ScheduleKeys(doc, "fermentation")

\* The operation has returned a document.
Built == returned # None /\ ~returned[1].failed

\* C23 as stated: for every accepted input the serialized document has none
\* of the calculated-field keys at any level.
C23_NoCalculatedKeyAnywhere ==
    Built =>
        (DOMAIN returned[1].document[1] \cup NestedKeys(returned[1].document[1]))
            \cap cleanup_fields = {}

\* C23 amended: for every accepted input the serialized document has none
\* of the calculated-field keys at its top level; below it the only such
\* key is the color of a fermentable entry that was supplied with one.
C23_NoCalculatedKeyAtTop ==
    Built =>
        LET doc == returned[1].document[1]
        IN /\ DOMAIN doc \cap cleanup_fields = {}
           /\ NestedKeys(doc) \cap cleanup_fields \subseteq {"color"}
           /\ \A k \in {"hops", "yeasts", "miscs"} :
                  "color" \notin SeqKeys(doc[k])
           /\ \A i \in 1..Len(doc["fermentables"]) :
                  "color" \in DOMAIN doc["fermentables"][i] =>
                      \E j \in 1..Len(given.fermentables) :
                          /\ TruthyInt(Get(given.fermentables[j], "color"))
                          /\ doc["fermentables"][i]["color"]
                                 = given.fermentables[j]["color"][1]

\* A record whose dump carried calculated keys of its own is serialized
\* without them.
C23_Witness ==
    /\ Built
    /\ given.dumped \cap cleanup_fields # {}
    /\ DOMAIN returned[1].document[1] \cap cleanup_fields = {}

\* A fermentable supplied with a color keeps it in the document.
C23_WitnessColor ==
    /\ Built
    /\ \E i \in 1..Len(returned[1].document[1]["fermentables"]) :
           "color" \in DOMAIN returned[1].document[1]["fermentables"][i]


\* ---- C24 ----
\* C24: the built recipe has a mash schedule exactly when at least one mash
\* step was supplied, with one schedule step per supplied step in order,
\* and a fermentation schedule exactly when a fermentation temperature was
\* supplied, then with exactly one primary step at that temperature; with
\* no temperature there is no fermentation field, never an empty schedule.
C24_SchedulesWhenSupplied ==
    Built =>
        LET doc == returned[1].document[1]
        IN /\ ("mash" \in DOMAIN doc) = (given.mash_steps # <<>>)
           /\ "mash" \in DOMAIN doc =>
                  /\ Len(doc["mash"].steps) = Len(given.mash_steps)
                  /\ \A i \in 1..Len(given.mash_steps) :
                         /\ doc["mash"].steps[i].stepTemp
                                = given.mash_steps[i]["stepTemp"][1]
                         /\ doc["mash"].steps[i].stepTime
                                = given.mash_steps[i]["stepTime"][1]
           /\ ("fermentation" \in DOMAIN doc) = (given.fermentation_temp # None)
           /\ "fermentation" \in DOMAIN doc =>
                  /\ Len(doc["fermentation"].steps) = 1
                  /\ doc["fermentation"].steps[1].type = "Primary"
                  /\ doc["fermentation"].steps[1].stepTemp
                         = given.fermentation_temp[1]


(***************************************************************************)
(* The debug sideband of _make_request (api.py lines 84-96).  A url is the *)
(* sequence of the characters after the base url and its slash; the debug  *)
(* directory is in one of the states the operating system can leave it in. *)
(***************************************************************************)
\* os.getenv("BREWFATHER_MCP_DEBUG") as a condition (line 89): unset and
\* the empty string are false.
DebugEnabled(flag) == flag # None /\ flag[1] # ""

\* s.split('?')[0]: the characters before the first question mark.
RECURSIVE BeforeQuery(_)
BeforeQuery(s) ==
    IF s = <<>> \/ s[1] = "?" THEN <<>>
    ELSE <<s[1]>> \o BeforeQuery(Tail(s))

\* .replace("/", "_").replace(":", "_") + ".json" (line 92)
DebugFilename(url) ==
    LET path == BeforeQuery(url)
    IN [i \in 1..Len(path) |->
           IF path[i] \in {"/", ":"} THEN "_" ELSE path[i]] \o <<".json">>

\* os.makedirs, open and write (lines 91, 94, 95) raise OSError when the
\* directory cannot be made, the file cannot be opened or the body cannot
\* be written.
DiskStates == {"writable", "no_directory", "no_file", "no_space"}

\* _make_request with the sideband: raise_for_status first, then the dump
\* when the flag is set, then the return of the body.  Nothing of the dump
\* is guarded, so its OSError leaves the request.
MakeRequestDebug(a) ==
    LET plain == MakeRequest(a.resp)
        dump == ~plain.raised /\ DebugEnabled(a.flag)
    IN [raised |-> IF plain.raised THEN Some("HTTPError")
                   ELSE IF dump /\ a.disk # "writable" THEN Some("OSError")
                   ELSE None,
        text |-> IF plain.raised \/ (dump /\ a.disk # "writable")
                   THEN None ELSE Some(plain.text),
        released |-> plain.released,
        files |-> IF dump /\ a.disk \in {"writable", "no_space"}
                    THEN {DebugFilename(a.url)} ELSE {}]

DebugUrls ==
    {<<"h">>, <<"h", "?", "l">>, <<"h", "/", "x">>, <<"h", "/", "x", "?", "l">>,
     <<"b", "/", "x", "/", "r">>, <<"h", "/", "x", ":", "y">>}
DebugFlags == {None, Some(""), Some("1"), Some("0")}
DebugArgs ==
    [url : DebugUrls,
     resp : {TransportError, Garbage, PageBody(<<>>), PageBody(<<Rec(<<"a">>, 1)>>)},
     flag : DebugFlags, disk : DiskStates]

InitDebug == /\ EngineOff /\ given \in DebugArgs /\ returned = None
CallMakeRequest ==
    /\ returned = None
    /\ returned' = Some(MakeRequestDebug(given))
    /\ UNCHANGED <<engine, given>>
NextDebug == CallMakeRequest
SpecDebug == InitDebug /\ [][NextDebug]_vars

\* What the caller of the request sees: the failure or the body.
Outcome(r) == [raised |-> r.raised, text |-> r.text]

\* C25: the value a GET request returns, and whether it fails, is the same
\* with the debug flag set as with it unset, also when writing the debug
\* file fails.
C25_DebugNeverAffectsReturn ==
    returned # None =>
        Outcome(returned[1])
            = Outcome(MakeRequestDebug([given EXCEPT !.flag = None]))


(***************************************************************************)
(* Specification: one call against the arbitrary remote, where the client  *)
(* keeps running and every request it sends returns or fails in the end.   *)
(***************************************************************************)
\* No call sends more requests than this: a guard for the state space, one
\* above the safety limit of the loop, so that the loop itself never meets
\* it.
MaxRequests == 11

IssueCapped(c) == Len(requests[c]) < MaxRequests /\ Issue(c)

NextFair ==
    \E c \in Callers :
        \/ CallAny(c)
        \/ IssueCapped(c)
        \/ Exhaust(c)
        \/ ReceiveAny(c)

\* A step of the client's own in a call that is under way.
Proceed == \E c \in Callers : IssueCapped(c) \/ Exhaust(c)

\* Each single request returns or fails in the end: the await of line 155
\* does not last for ever.
EveryRequestReturns ==
    \A c \in Callers : []<>(pc[c] # "awaiting")

\* The event loop runs the coroutine whenever it can go on (lines 153-155,
\* 174-183), and the remote answers every request.  Whether a caller calls
\* at all is left open.
Fairness == WF_vars(Proceed) /\ EveryRequestReturns

SpecFair == Init /\ [][NextFair]_vars /\ Fairness

\* C26: every call of the paginated fetch engine terminates, with a result
\* or a failure, whatever the remote answers (full pages for ever, the
\* same page again, records with an empty id) and for every limit.
C26_EveryCallTerminates ==
    \A c \in Callers :
        (pc[c] \in {"loop", "awaiting"}) ~> (pc[c] \in {"done", "failed"})

\* A call that was answered with full pages only, the first of them twice,
\* has ended at the safety limit.
C26_Witness ==
    /\ pc[1] = "done"
    /\ Len(requests[1]) = max_pages
    /\ warned[1]
    /\ pages[1][1] = pages[1][2]


\* ---- C27 ----
\* The positions <<n, k>> of the steps rendered in the given state, and the
\* stages rendered in it.
StepsRendered(r, state) ==
    {<<n, k>> \in (1..MaxStages) \X (1..MaxSteps) :
        /\ n \in DOMAIN r /\ k \in DOMAIN r[n].steps
        /\ r[n].steps[k] = state}
StagesRendered(r, state) == {n \in DOMAIN r : r[n].icon = state}

\* At most one stage and at most one step of the whole tracker are
\* in-progress, none when the tracker is not active, and the in-progress
\* step is in the in-progress stage.
OneInProgress(r) ==
    /\ Cardinality(StagesRendered(r, "in-progress")) <= 1
    /\ Cardinality(StepsRendered(r, "in-progress")) <= 1
    /\ ~given.active =>
           /\ StagesRendered(r, "in-progress") = {}
           /\ StepsRendered(r, "in-progress") = {}
    /\ \A p \in StepsRendered(r, "in-progress") :
           r[p[1]].icon = "in-progress"

\* C27 as stated: at most one stage and one step in-progress, none when the
\* tracker is not active, the in-progress step inside the in-progress
\* stage, and no step completed or in-progress inside a pending stage.
C27_NoProgressInPendingStage ==
    Rendered =>
        LET r == returned[1].body[1]
        IN /\ OneInProgress(r)
           /\ \A n \in StagesRendered(r, "pending") :
                  \A k \in DOMAIN r[n].steps : r[n].steps[k] = "pending"

\* C27 amended: at most one stage and one step in-progress, none when the
\* tracker is not active, the in-progress step inside the in-progress
\* stage; inside a pending stage no step is in-progress, and a step is
\* completed exactly when its index is below that stage's own step.
C27_OneInProgress ==
    Rendered =>
        LET r == returned[1].body[1]
        IN /\ OneInProgress(r)
           /\ \A n \in StagesRendered(r, "pending") :
                  \A k \in DOMAIN r[n].steps :
                      /\ r[n].steps[k] # "in-progress"
                      /\ r[n].steps[k] = "completed"
                             <=> k - 1 < given.stages[n].step

\* An active tracker whose current stage holds the one in-progress step,
\* followed by a pending stage with a completed step.
C27_Witness ==
    /\ Rendered
    /\ given.active
    /\ Len(given.stages) >= 2
    /\ given.stages[1].steps = MaxSteps /\ given.stages[2].steps = MaxSteps
    /\ StagesRendered(returned[1].body[1], "in-progress") = {1}
    /\ StepsRendered(returned[1].body[1], "in-progress") = {<<1, 2>>}
    /\ returned[1].body[1][2].icon = "pending"
    /\ returned[1].body[1][2].steps[1] = "completed"


\* ---- C28 ----
\* The last n of a sequence, in their order.
LastN(s, n) == SubSeq(s, Len(s) - n + 1, Len(s))

\* C28: for every limit >= 0 and every number of fetched readings the
\* summary lists the last min(limit, total) readings, in their original
\* order, so at most `limit` of them, and the 'Showing latest' count is the
\* number of lines listed.
C28_ListsAtMostLimit ==
    (Summarised /\ given.limit >= 0) =>
        LET total == Len(given.root)
            n == IF given.limit < total THEN given.limit ELSE total
        IN /\ Len(Shown) <= given.limit
           /\ Shown = [i \in 1..n |-> ReadingLine(LastN(given.root, n)[i])]
           /\ returned[1].body[1].showing = Len(Shown)


(***************************************************************************)
(* update_batch (server.py lines 668-721) and update_batch_detail (api.py  *)
(* lines 219-221).  A measured value is an integer in the unit's smallest  *)
(* step; the remote accepts the partial update or answers with a failure.  *)
(***************************************************************************)
\* At most this many measured values are supplied in one call.
MaxSupplied == 2

\* The measured-value parameters, lines 671-682.
UpdateFields ==
    {"measuredMashPh", "measuredBoilSize", "measuredFirstWortGravity",
     "measuredPreBoilGravity", "measuredPostBoilGravity", "measuredKettleSize",
     "measuredOg", "measuredFermenterTopUp", "measuredBatchSize", "measuredFg",
     "measuredBottlingSize", "carbonationTemp"}

\* Line 686 tests the status by truthiness, lines 688-710 test a measured
\* value by 'is not None'.
StatusGiven(status) == TruthyText(status)
MeasuredGivenTruthy(v) == TruthyInt(v)
MeasuredGiven(v) == v # None

\* Lines 685-711: update_data.
UpdateData(a) ==
    LET keys == (IF StatusGiven(a.status) THEN {"status"} ELSE {})
                \cup {f \in UpdateFields : MeasuredGiven(a.measured[f])}
    IN [k \in keys |-> IF k = "status" THEN a.status[1] ELSE a.measured[k][1]]

\* _make_patch_request (api.py lines 98-101): raise_for_status on the
\* answer of the remote.
MakePatchRequest(resp) == [raised |-> resp.status # "ok"]

\* The operation: the text it returns or the failure it raises, and the
\* partial-update requests it has sent.
update_batch(a) ==
    LET update_data == UpdateData(a)
        request == [url |-> BuildUrl("batches", Some(a.batch_id), None),
                    data |-> update_data]
    IN IF DOMAIN update_data = {}
         THEN [failed |-> FALSE, text |-> Some("No update parameters provided."),
               sent |-> <<>>]
       ELSE IF MakePatchRequest(a.resp).raised
         THEN [failed |-> TRUE, text |-> None, sent |-> <<request>>]
       ELSE [failed |-> FALSE, text |-> Some("Batch updated successfully."),
             sent |-> <<request>>]

UpdateArgs ==
    [batch_id : {<<"b">>},
     status : {None, Some(""), Some("Fermenting")},
     measured : {m \in [UpdateFields -> {None, Some(0), Some(5)}] :
                    Cardinality({f \in UpdateFields : m[f] # None}) <= MaxSupplied},
     resp : {TransportError, PageBody(<<>>)}]

InitUpdate == /\ EngineOff /\ given \in UpdateArgs /\ returned = None
CallUpdateBatch ==
    /\ returned = None
    /\ returned' = Some(update_batch(given))
    /\ UNCHANGED <<engine, given>>
NextUpdate == CallUpdateBatch
SpecUpdate == InitUpdate /\ [][NextUpdate]_vars

\* The parameters the caller supplied: those that are not None.
SuppliedKeys(a) ==
    (IF a.status # None THEN {"status"} ELSE {})
    \cup {f \in UpdateFields : a.measured[f] # None}
SuppliedValue(a, k) == IF k = "status" THEN a.status[1] ELSE a.measured[k][1]

\* The payload is exactly the given keys with the supplied values.
PayloadIs(r, a, keys) ==
    /\ Len(r.sent) = 1
    /\ r.sent[1].url.path = <<"batches", a.batch_id>>
    /\ DOMAIN r.sent[1].data = keys
    /\ \A k \in keys : r.sent[1].data[k] = SuppliedValue(a, k)

\* C29 as stated: at most one partial-update request per call; none, and
\* the notice, when no update field was supplied; otherwise one request
\* whose payload holds exactly the supplied fields with their values.
C29_PayloadIsWhatWasSupplied ==
    returned # None =>
        LET r == returned[1]
            keys == SuppliedKeys(given)
        IN /\ Len(r.sent) <= 1
           /\ keys = {} =>
                  /\ r.sent = <<>>
                  /\ r.text = Some("No update parameters provided.")
           /\ keys # {} => PayloadIs(r, given, keys)

\* C29 amended: as stated, where a status counts as supplied only when it
\* is not the empty string, and a measured value whenever it is not None.
C29_PayloadIsWhatWasGiven ==
    returned # None =>
        LET r == returned[1]
            keys == SuppliedKeys(given)
                        \ (IF given.status = Some("") THEN {"status"} ELSE {})
        IN /\ Len(r.sent) <= 1
           /\ keys = {} =>
                  /\ r.sent = <<>>
                  /\ r.text = Some("No update parameters provided.")
           /\ keys # {} => PayloadIs(r, given, keys)

\* A call with an empty status and a measured value of 0 has sent the 0
\* and no status.
C29_Witness ==
    /\ returned # None
    /\ given.status = Some("")
    /\ given.measured["measuredOg"] = Some(0)
    /\ Len(returned[1].sent) = 1
    /\ "measuredOg" \in DOMAIN returned[1].sent[1].data
    /\ returned[1].sent[1].data["measuredOg"] = 0
    /\ "status" \notin DOMAIN returned[1].sent[1].data


\* ---- C30 ----
\* C30: at the end of every successful call the page count reported in the
\* 'Fetched ... across K page(s)' event is the number of page requests the
\* call issued, whether it ended by a short page, by an empty page or by
\* the safety limit.
C30_ReportedPagesAreRequests ==
    \A c \in Callers :
        pc[c] = "done" => reported[c] = Some(Len(requests[c]))
====
